---- MODULE Spec2Model ----
(***************************************************************************)
(* ssh-socat-tunnel: the supervisor (main), the local bridge manager       *)
(* (startLocalWrappers / child.stop), the port prober (waitLocalListen)    *)
(* and the reconnect loop (runTunnel), as one state machine.               *)
(*                                                                         *)
(* Time is a countdown: the one timer the control task is blocked on       *)
(* (time.After in stop, the deadline of waitLocalListen, time.After of the *)
(* reconnect delay) counts whole seconds down to 0.  A blocked select is   *)
(* woken by the first event that makes one of its branches ready, so time  *)
(* does not pass (Tick is disabled) while a branch is ready.               *)
(***************************************************************************)
EXTENDS Integers, Sequences, FiniteSets, TLC

\* ---- bounds of the model -------------------------------------------------
MaxUDP == 2
MaxLaunches == 2
MaxSignals == 1
MaxCrashes == 1
MaxCalls == 3
MaxTCP == 1
MaxRemoteSignals == 1
MaxArgTCP == 2
MaxPackets == 3
MaxRounds == 2

\* ---- program constants ---------------------------------------------------
CleanupGrace == 1
DeferGrace == 2
ProbeWait == 3
DefaultDelay == 2
DefaultPort == 22
MaxPort == 65535
DefaultStrict == "accept-new"
DialTimeout == 6
ProbeSleep == 3
IntWidth == 64
LimbBase == 256
Second == 1000000000

VARIABLES
    cfg,          \* cfg.UDPForwards: sequence of [pub, wrap, lport, host]
    conf,         \* cfg.VPS and cfg.TCPForwards: the file's, then the loaded ones
    delay,        \* cfg.ReconnectDelaySeconds after loadConfig
    windows,      \* build tag: TRUE for the windows createFIFO
    pc,           \* position of the control task (main)
    status,       \* "running", "exit0", "exit1", "signal", "panic"
    sigInstalled, \* signal.NotifyContext is in effect
    cancelled,    \* ctx.Err() != nil
    sigs,         \* number of interrupt/termination signals delivered
    fs,           \* [dir |-> tmpDir exists, files |-> FIFO files in it,
                  \*  stuck |-> paths whose removal fails]
    proc,         \* relay process table: "none","running","exited","reaped"
    termed,       \* relays that received SIGTERM while running
    killed,       \* relays on which Process.Kill was issued
    crashes,      \* relays that exited on their own, without a signal
    listener,     \* loopback TCP port -> Free, Foreign or the relay bound to it
    kids,         \* []*child: sequence of [p, fifos]
    i,            \* loop index over cfg.UDPForwards
    stopQ,        \* children still to be stopped by the running stop loop
    stopPhase,    \* position inside child.stop: "idle","select","wait","cleanup"
    grace,        \* the grace argument of the running stop
    timer,        \* seconds left on the timer the control task waits on
    ssh,          \* the SSH process of runTunnel: "none","running","exited"
    sshOK,        \* exit status 0 of the SSH process
    launches,     \* number of cmd.Start calls on an ssh command
    failures,     \* runTunnel returned an error, no cancellation
    cleanExits,   \* runTunnel returned nil
    elapsed,      \* seconds spent so far in the current reconnect wait
    probed,       \* forwards whose waitLocalListen returned nil
    slwOK,        \* startLocalWrappers returned without error
    calls,        \* stop calls made by the unit driver of child.stop
    hist,         \* what happened: set of event tags
    rpc,          \* position of the remote script: "off" before its first run
    rrun,         \* the launch whose ssh session runs (ran) the remote script
    rj,           \* the script's loop over the UDP forwards
    rk,           \* the watchdog's loop over $pids
    rpids,        \* $pids: the recorded relay pids of this run
    rprocs,       \* remote process table: "none","running","dead","reaped"
    rbridge,      \* the relays spawned on the VPS: [pid, kind, port, dir, pipe]
    rfs,          \* the VPS: [dirs |-> temp dirs, fifos |-> <<dir, pub>>,
                  \*           socat |-> a socat binary is on the remote PATH]
    rtrap,        \* trap cleanup INT TERM EXIT is in effect
    rpend,        \* a trapped INT or TERM is pending
    rcleanups,    \* number of times cleanup() ran in this run of the script
    rcode,        \* exit status of the script
    rdiag,        \* the script wrote a diagnostic to standard error
    rsigs,        \* INT/TERM signals delivered to the script
    lag,          \* watchdog sleeps begun since a recorded relay of this run died
    args,         \* sshArgs, target of the last runTunnel: [argv, target]
    wll,          \* a call of waitLocalListen timed in steps of 25 ms:
                  \* [port, maxWait, now, at, left, res]
    net,          \* the datagrams on their way through one established UDP
                  \* bridge: one sequence for each socket, stream and FIFO
    rd            \* the reconnect delay as the program computes it, in 64-bit
                  \* integers: [raw, secs, dur, at, waits, slept]

vars == <<cfg, conf, delay, windows, pc, status, sigInstalled, cancelled, sigs, fs,
          proc, termed, killed, crashes, listener, kids, i, stopQ, stopPhase, grace,
          timer, ssh, sshOK, launches, failures, cleanExits, elapsed, probed,
          slwOK, calls, hist, rpc, rrun, rj, rk, rpids, rprocs, rbridge, rfs,
          rtrap, rpend, rcleanups, rcode, rdiag, rsigs, lag, args, wll, net,
          rd>>

\* ---- data ----------------------------------------------------------------
Ports == 1..MaxUDP
Procs == 1..(2 * MaxUDP)
NoProc == 0
TmpDir == 0
Free == 0
Foreign == -1

LocalHosts == {"", "localhost"}

UDPForward == [pub : Ports, wrap : Ports, lport : {1}, host : {"localhost"}]

\* the lists of UDP forwards, up to a renaming of the ports: forward k uses
\* port k or a port of an earlier forward
Configs ==
    UNION {{c \in [1..m -> UDPForward] :
              \A k \in 1..m : c[k].pub <= k /\ c[k].wrap <= k} : m \in 0..MaxUDP}

\* a udp_forwards entry that validateConfig refuses, one for each field
BadForwards ==
    {[pub |-> 0, wrap |-> 1, lport |-> 1, host |-> "localhost"],
     [pub |-> 1, wrap |-> MaxPort + 1, lport |-> 1, host |-> "localhost"],
     [pub |-> 1, wrap |-> 1, lport |-> 0, host |-> "localhost"],
     [pub |-> 1, wrap |-> 1, lport |-> 1, host |-> ""]}

\* the udp_forwards lists of a config file: the lists of Configs, and those
\* with a refused entry at their end
UDPInputs ==
    Configs \cup {Append(c, b) : c \in {d \in Configs : Len(d) < MaxUDP},
                                b \in BadForwards}

TCPForward == [remote : {0, 1}, local : {1, MaxPort + 1}, host : LocalHosts]

\* the vps section and the tcp_forwards list of a config file
ConfInputs ==
    [host : {"", "vps"}, user : {"", "root"},
     key : {"", "file", "dir", "missing"},
     port : {0, DefaultPort, MaxPort + 1},
     strict : {""},
     tcp : UNION {[1..m -> TCPForward] : m \in 0..MaxTCP}]

Range(q) == {q[n] : n \in 1..Len(q)}

TcpProc(k) == 2 * k - 1
UdpProc(k) == 2 * k

FifoPath(u) == u.pub

EmptyFS == [dir |-> FALSE, files |-> {}, stuck |-> {}]

\* the maxWait arguments of the timed calls, in steps of 25 ms: none, one
\* step, just over one attempt, and the 3 s (40 sleeps of 75 ms) of
\* assertLocalWrappers
MaxWaits == {0, 1, DialTimeout + 1, 40 * ProbeSleep}

\* the places a datagram of the bridge can be in
Channels == {"toPublic", "toSender", "remoteFifo", "tcpDown", "tcpUp",
             "localFifo", "toService", "fromService"}

\* nothing is on its way
NoTraffic == [sent |-> 0, ch |-> [c \in Channels |-> <<>>]]

\* no call of waitLocalListen is timed
NoCall == [port |-> 0, maxWait |-> 0, now |-> 0, at |-> "none", left |-> 0,
           res |-> "none"]

\* no ssh command line has been built yet
NoArgs == [argv |-> <<>>, target |-> ""]

\* configs buildSSHArgs is applied to on its own: as loadConfig returns them
ArgTCPForward == [remote : {80, 443}, local : {8080}, host : {"localhost", "10.0.0.5"}]
ArgUDPForward == [pub : {9002}, wrap : {10000, 10001}, lport : {8002}, host : {"127.0.0.1"}]
ArgConfs ==
    [host : {"vps"}, user : {"root", "tunnel"}, key : {"file"},
     port : {DefaultPort, 2222}, strict : {DefaultStrict, "yes"},
     tcp : UNION {[1..n -> ArgTCPForward] : n \in 0..MaxArgTCP}]
ArgUDPs == UNION {[1..m -> ArgUDPForward] : m \in 0..MaxUDP}

\* ---- int and time.Duration: two's complement integers of IntWidth bits -----
\* a value is the sequence of its bytes, the lowest first
Limbs == IntWidth \div 8

RECURSIVE ToLimbs(_, _)
ToLimbs(n, w) ==
    IF w = 0 THEN <<>> ELSE <<n % LimbBase>> \o ToLimbs(n \div LimbBase, w - 1)

\* the int of a number n >= 0 of the model
Int64(n) == ToLimbs(n, Limbs)

\* the bytes of a sequence of column sums; the carry out of the top is lost
RECURSIVE Carry(_, _)
Carry(cols, c) ==
    IF cols = <<>> THEN <<>>
    ELSE LET t == Head(cols) + c IN
         <<t % LimbBase>> \o Carry(Tail(cols), t \div LimbBase)

\* a + b, -a and a - b: the result wraps around
Add64(a, b) == Carry([k \in 1..Limbs |-> a[k] + b[k]], 0)
Neg64(a) == Carry([k \in 1..Limbs |-> LimbBase - 1 - a[k]], 1)
Sub64(a, b) == Add64(a, Neg64(b))

\* a * b: the products of the bytes by column, cut to the width
RECURSIVE ColSum(_, _, _, _)
ColSum(a, b, k, j) ==
    IF j = 0 THEN 0 ELSE a[j] * b[k + 1 - j] + ColSum(a, b, k, j - 1)

Mul64(a, b) == Carry([k \in 1..Limbs |-> ColSum(a, b, k, k)], 0)

IsNeg(a) == a[Limbs] >= LimbBase \div 2
IsZero(a) == \A k \in 1..Limbs : a[k] = 0

\* a < b for a >= 0 and b >= 0
Less64(a, b) == IsNeg(Sub64(a, b))

\* the largest and the smallest int
MinInt64 == [k \in 1..Limbs |-> IF k = Limbs THEN LimbBase \div 2 ELSE 0]
MaxInt64 == Sub64(MinInt64, Int64(1))

\* values of reconnect_delay_seconds in a config file: missing or zero,
\* small, negative, days and years, the int32 and int64 limits, and the
\* values around 2^63 / 10^9 = 9223372036.85 and 2^64 / 10^9 = 18446744073.7
DelayInputs ==
    {Int64(0), Int64(1), Int64(2), Int64(5), Int64(60), Int64(3600),
     Int64(86400), Int64(31536000), Int64(2147483647),
     Neg64(Int64(1)), Neg64(Int64(5)), MinInt64, MaxInt64,
     Mul64(Int64(65536), Int64(65536)),
     Add64(Mul64(Int64(9223372), Int64(1000)), Int64(36)),
     Add64(Mul64(Int64(9223372), Int64(1000)), Int64(37)),
     Add64(Mul64(Int64(18446744), Int64(1000)), Int64(74))}

\* if c.ReconnectDelaySeconds <= 0 { c.ReconnectDelaySeconds = 2 }
LoadDelay64(raw) == IF IsNeg(raw) \/ IsZero(raw) THEN Int64(DefaultDelay) ELSE raw

\* time.Duration(cfg.ReconnectDelaySeconds) * time.Second
Duration(secs) == Mul64(secs, Int64(Second))

\* time.After(d) for d <= 0 delivers at once
FiresAtOnce(d) == IsNeg(d) \/ IsZero(d)

\* no reconnect delay is computed
NoDelay == [raw |-> Int64(0), secs |-> Int64(0), dur |-> Int64(0), at |-> "none",
            waits |-> 0, slept |-> FALSE]

\* loadConfig: a missing, zero or negative reconnect_delay_seconds becomes 2
LoadDelay(raw) == IF raw <= 0 THEN DefaultDelay ELSE raw

\* loadConfig: a missing or zero vps.port becomes 22
LoadPort(raw) == IF raw = 0 THEN DefaultPort ELSE raw

\* loadConfig: a missing strict_hostkey becomes "accept-new"
LoadStrict(raw) == IF raw = "" THEN DefaultStrict ELSE raw

isPort(p) == p >= 1 /\ p <= MaxPort

\* os.Stat(c.VPS.SSHKey): err != nil || st.IsDir()
KeyUnreadable(key) == key \in {"", "missing", "dir"}

\* mutant: validateConfig without its check of host, user and key
MissingVPS_Unchecked(c) == FALSE

\* c.VPS.Host == "" || c.VPS.User == "" || c.VPS.SSHKey == ""
MissingVPS(c) == c.host = "" \/ c.user = "" \/ c.key = ""

InvalidTCP(f) == ~isPort(f.remote) \/ ~isPort(f.local) \/ f.host = ""

InvalidUDP(u) ==
    ~isPort(u.pub) \/ ~isPort(u.lport) \/ ~isPort(u.wrap) \/ u.host = ""

\* validateConfig(c) returns nil
ValidateConfig(c, udp) ==
    /\ ~MissingVPS(c)
    /\ isPort(c.port)
    /\ ~KeyUnreadable(c.key)
    /\ \A n \in 1..Len(c.tcp) : ~InvalidTCP(c.tcp[n])
    /\ \A k \in 1..Len(udp) : ~InvalidUDP(udp[k])

\* the config that loadConfig returns for the file's content
Loaded(c) == [c EXCEPT !.port = LoadPort(@), !.strict = LoadStrict(@)]

\* ---- buildSSHArgs -----------------------------------------------------------
Digit(d) ==
    CASE d = 0 -> "0" [] d = 1 -> "1" [] d = 2 -> "2" [] d = 3 -> "3"
      [] d = 4 -> "4" [] d = 5 -> "5" [] d = 6 -> "6" [] d = 7 -> "7"
      [] d = 8 -> "8" [] d = 9 -> "9"

\* strconv.Itoa and the %d verb: the decimal numeral of n
RECURSIVE Itoa(_)
Itoa(n) ==
    IF n < 0 THEN "-" \o Itoa(0 - n)
    ELSE IF n < 10 THEN Digit(n)
    ELSE Itoa(n \div 10) \o Digit(n % 10)

\* the options every ssh command line begins with
BaseArgs(c) ==
    <<"-i", c.key,
      "-p", Itoa(c.port),
      "-o", "BatchMode=yes",
      "-o", "ExitOnForwardFailure=yes",
      "-o", "ServerAliveInterval=15",
      "-o", "ServerAliveCountMax=3",
      "-o", "StrictHostKeyChecking=" \o c.strict,
      "-T">>

\* fmt.Sprintf("0.0.0.0:%d:%s:%d", f.RemotePort, f.LocalHost, f.LocalPort)
TCPReverse(f) ==
    "0.0.0.0:" \o Itoa(f.remote) \o ":" \o f.host \o ":" \o Itoa(f.local)

\* mutant: the wrap port on the VPS is forwarded to the local UDP port
UDPReverse_ToService(u) ==
    "127.0.0.1:" \o Itoa(u.wrap) \o ":127.0.0.1:" \o Itoa(u.lport)

\* fmt.Sprintf("127.0.0.1:%d:127.0.0.1:%d", u.WrapTCPPort, u.WrapTCPPort)
UDPReverse(u) ==
    "127.0.0.1:" \o Itoa(u.wrap) \o ":127.0.0.1:" \o Itoa(u.wrap)

\* for _, f := range cfg.TCPForwards { base = append(base, "-R", ...) }
RECURSIVE TCPArgs(_)
TCPArgs(tcp) ==
    IF tcp = <<>> THEN <<>>
    ELSE <<"-R", TCPReverse(Head(tcp))>> \o TCPArgs(Tail(tcp))

\* for _, u := range cfg.UDPForwards { base = append(base, "-R", ...) }
RECURSIVE UDPArgs(_)
UDPArgs(udp) ==
    IF udp = <<>> THEN <<>>
    ELSE <<"-R", UDPReverse(Head(udp))>> \o UDPArgs(Tail(udp))

buildSSHArgs(c, udp) ==
    [argv |-> BaseArgs(c) \o TCPArgs(c.tcp) \o UDPArgs(udp),
     target |-> c.user \o "@" \o c.host]

\* os.Stat + os.RemoveAll / os.Remove of one registered path, the error of
\* the removal dropped: RemoveAll removes what it can of the directory, and
\* the directory when nothing is left in it
RemovePath(path, f) ==
    IF path = TmpDir
    THEN IF f.dir
         THEN LET left == f.files \cap f.stuck IN
              [f EXCEPT !.files = left,
                        !.dir = (TmpDir \in f.stuck \/ left # {})]
         ELSE f
    ELSE IF path \in f.files /\ path \notin f.stuck
         THEN [f EXCEPT !.files = @ \ {path}]
         ELSE f

\* mutant: the loop over c.fifos ends at the first removal that fails
RECURSIVE RemovePaths_UntilError(_, _)
RemovePaths_UntilError(paths, f) ==
    IF paths = <<>> THEN f
    ELSE IF Head(paths) \in f.stuck THEN f
    ELSE RemovePaths_UntilError(Tail(paths), RemovePath(Head(paths), f))

\* for _, path := range c.fifos { ... }
RECURSIVE RemovePaths(_, _)
RemovePaths(paths, f) ==
    IF paths = <<>> THEN f
    ELSE RemovePaths(Tail(paths), RemovePath(Head(paths), f))

\* createFIFO: os.Remove(path) then Mkfifo(path)
FifoRemoved(path, f) == [f EXCEPT !.files = @ \ {path}]
FifoCreated(path, f) == [f EXCEPT !.files = @ \cup {path}]

Bound(p) == \E q \in Ports : listener[q] = p
Released(p) == [q \in Ports |-> IF listener[q] = p THEN Free ELSE listener[q]]

Running(p) == proc[p] = "running"

\* pids on the VPS: 2 * MaxUDP fresh ones for each run of the remote script
RPids == 1..(MaxLaunches * 2 * MaxUDP)

\* a VPS no script has run on, with or without socat on its PATH
VPS(socat) == [dirs |-> {}, fifos |-> {}, socat |-> socat]

\* no remote script has run yet
RemoteIdle(f) ==
    /\ rpc = "off"
    /\ rrun = 0
    /\ rj = 1
    /\ rk = 1
    /\ rpids = <<>>
    /\ rprocs = [p \in RPids |-> "none"]
    /\ rbridge = {}
    /\ rfs = f
    /\ rtrap = FALSE
    /\ rpend = FALSE
    /\ rcleanups = 0
    /\ rcode = 0
    /\ rdiag = FALSE
    /\ rsigs = 0
    /\ lag = 0

RemoteOff == RemoteIdle(VPS(TRUE))

Alive == status = "running"

\* ---- initial state: main is entered; the config file and the platform ----
\* the platform and the foreign listeners are told apart only where a run
\* gets to them: for a config that main accepts, on the wrap ports it uses
Init ==
    /\ cfg \in UDPInputs
    /\ conf \in ConfInputs
    /\ delay \in 0..1
    /\ LET accepted == ValidateConfig(Loaded(conf), cfg) IN
       /\ windows \in IF accepted THEN BOOLEAN ELSE {FALSE}
       /\ listener \in {l \in [Ports -> {Free, Foreign}] :
               \A q \in Ports : l[q] = Foreign =>
                   accepted /\ \E k \in 1..Len(cfg) : cfg[k].wrap = q}
    /\ pc = "require_ssh"
    /\ status = "running"
    /\ sigInstalled = FALSE
    /\ cancelled = FALSE
    /\ sigs = 0
    /\ fs = EmptyFS
    /\ proc = [p \in Procs |-> "none"]
    /\ termed = {}
    /\ killed = {}
    /\ crashes = 0
    /\ kids = <<>>
    /\ i = 1
    /\ stopQ = <<>>
    /\ stopPhase = "idle"
    /\ grace = 0
    /\ timer = 0
    /\ ssh = "none"
    /\ sshOK = FALSE
    /\ launches = 0
    /\ failures = 0
    /\ cleanExits = 0
    /\ elapsed = 0
    /\ probed = {}
    /\ slwOK = FALSE
    /\ calls = 0
    /\ hist = {}
    /\ args = NoArgs
    /\ wll = NoCall
    /\ net = NoTraffic
    /\ rd = NoDelay
    /\ RemoteOff


\* ---- frames --------------------------------------------------------------
cfgVars == <<cfg, conf, delay, windows>>
sigVars == <<sigInstalled, cancelled, sigs>>
procVars == <<proc, termed, killed, crashes, listener>>
stopVars == <<stopQ, stopPhase, grace>>
sshVars == <<ssh, sshOK, launches, failures, cleanExits, elapsed>>
histVars == <<calls, hist>>
localVars == <<cfg, conf, delay, windows, pc, status, sigInstalled, cancelled,
               sigs, fs, proc, termed, killed, crashes, listener, kids, i, stopQ,
               stopPhase, grace, timer, ssh, sshOK, launches, failures,
               cleanExits, elapsed, probed, slwOK, calls, hist, args, wll,
               net, rd>>
unitVars == <<args, wll, net, rd>>
remVars == <<rpc, rrun, rj, rk, rpids, rprocs, rbridge, rfs, rtrap, rpend,
             rcleanups, rcode, rdiag, rsigs, lag>>

\* die: print the message and os.Exit(1); deferred functions do not run
Die(tag) ==
    /\ status' = "exit1"
    /\ pc' = "exited"
    /\ hist' = hist \cup {tag}
    /\ UNCHANGED calls

\* ---- main: the set-up steps ------------------------------------------------
\* requireBinary(name): exec.LookPath finds the binary, or die
RequireBinary(name, next) ==
    /\ Alive /\ pc = "require_" \o name
    /\ \E found \in BOOLEAN :
         IF found
         THEN /\ pc' = next
              /\ UNCHANGED <<status, histVars>>
         ELSE Die("missing_" \o name)
    /\ UNCHANGED <<cfgVars, sigVars, fs, procVars, kids, i, stopVars, timer,
                   sshVars, probed, slwOK>>
    /\ UNCHANGED remVars
    /\ UNCHANGED unitVars

\* loadConfig: os.ReadFile and yaml.Unmarshal succeed and the defaults are
\* applied, or main dies
LoadConfig ==
    /\ Alive /\ pc = "load"
    /\ \E ok \in BOOLEAN :
         IF ok
         THEN /\ conf' = Loaded(conf)
              /\ delay' = LoadDelay(delay)
              /\ pc' = "validate"
              /\ UNCHANGED <<status, histVars>>
         ELSE /\ Die("load_failed")
              /\ UNCHANGED <<conf, delay>>
    /\ UNCHANGED <<cfg, windows, sigVars, fs, procVars, kids, i, stopVars,
                   timer, sshVars, probed, slwOK>>
    /\ UNCHANGED remVars
    /\ UNCHANGED unitVars

\* if err := validateConfig(cfg); err != nil { die }
Validate ==
    /\ Alive /\ pc = "validate"
    /\ IF ValidateConfig(conf, cfg)
       THEN /\ pc' = "main"
            /\ UNCHANGED <<status, histVars>>
       ELSE Die("invalid_config")
    /\ UNCHANGED <<cfgVars, sigVars, fs, procVars, kids, i, stopVars, timer,
                   sshVars, probed, slwOK>>
    /\ UNCHANGED remVars
    /\ UNCHANGED unitVars

\* ---- startLocalWrappers --------------------------------------------------
\* mutant: the relay of the current forward that is not yet in kids is
\* not stopped before cleanup()
BeginCleanup_KidsOnly(extra) ==
    /\ stopQ' = kids
    /\ grace' = CleanupGrace
    /\ stopPhase' = "idle"
    /\ pc' = "slw_cleanup"

\* cleanup(): stop every child in kids (after `extra`, the relay stopped
\* explicitly before cleanup is called), then RemoveAll(tmpDir)
BeginCleanup(extra) ==
    /\ stopQ' = extra \o kids
    /\ grace' = CleanupGrace
    /\ stopPhase' = "idle"
    /\ pc' = "slw_cleanup"

\* mutant: startLocalWrappers without its test for an empty list
NoForwards_Unchecked == FALSE

\* len(cfg.UDPForwards) == 0
NoForwards == Len(cfg) = 0

\* len(cfg.UDPForwards) == 0: return nil, nil; otherwise os.MkdirTemp
StartLocalWrappers ==
    /\ Alive /\ pc = "main"
    /\ IF NoForwards
       THEN /\ pc' = "assert"
            /\ slwOK' = TRUE
            /\ UNCHANGED <<fs, timer>>
       ELSE \E ok \in BOOLEAN :
              IF ok
              THEN /\ fs' = [fs EXCEPT !.dir = TRUE]
                   /\ pc' = "slw_fifo"
                   /\ UNCHANGED <<slwOK, timer>>
              ELSE /\ pc' = "slw_failed"
                   /\ UNCHANGED <<fs, slwOK, timer>>
    /\ i' = 1
    /\ UNCHANGED <<cfgVars, status, sigVars, procVars, kids, stopVars,
                   sshVars, probed, histVars>>
    /\ UNCHANGED remVars
    /\ UNCHANGED unitVars

\* createFIFO(fifoPath) for forward i
CreateFIFOStep ==
    /\ Alive /\ pc = "slw_fifo"
    /\ LET path == FifoPath(cfg[i]) IN
       \E ok \in BOOLEAN :
         IF ok /\ ~windows
         THEN /\ fs' = FifoCreated(path, FifoRemoved(path, fs))
              /\ pc' = "slw_tcp"
              /\ UNCHANGED stopVars
         ELSE /\ fs' = IF windows THEN fs ELSE FifoRemoved(path, fs)
              /\ BeginCleanup(<<>>)
    /\ UNCHANGED <<cfgVars, status, sigVars, procVars, kids, i, timer,
                   sshVars, probed, slwOK, histVars>>
    /\ UNCHANGED remVars
    /\ UNCHANGED unitVars

\* os.OpenFile(llogTCP) and cmdTCP.Start()
SpawnTCP ==
    /\ Alive /\ pc = "slw_tcp"
    /\ \E ok \in BOOLEAN :
         IF ok
         THEN /\ proc' = [proc EXCEPT ![TcpProc(i)] = "running"]
              /\ pc' = "slw_udp"
              /\ UNCHANGED stopVars
         ELSE /\ BeginCleanup(<<>>)
              /\ UNCHANGED proc
    /\ UNCHANGED <<cfgVars, status, sigVars, fs, termed, killed, crashes, listener,
                   kids, i, timer, sshVars, probed, slwOK, histVars>>
    /\ UNCHANGED remVars
    /\ UNCHANGED unitVars

\* mutant: the UDP relay of a forward is not appended to kids
NewKids_TCPOnly(k) == <<[p |-> TcpProc(k), fifos |-> <<FifoPath(cfg[k])>>]>>

\* the two children appended to kids for forward k: the TCP relay with the
\* FIFO path registered on it, then the UDP relay
NewKids(k) ==
    <<[p |-> TcpProc(k), fifos |-> <<FifoPath(cfg[k])>>],
      [p |-> UdpProc(k), fifos |-> <<>>]>>

\* os.OpenFile(llogUDP) and cmdUDP.Start(); on success both children are
\* appended to kids
SpawnUDP ==
    /\ Alive /\ pc = "slw_udp"
    /\ \E ok \in BOOLEAN :
         IF ok
         THEN /\ proc' = [proc EXCEPT ![UdpProc(i)] = "running"]
              /\ kids' = kids \o NewKids(i)
              /\ IF i < Len(cfg)
                 THEN /\ i' = i + 1 /\ pc' = "slw_fifo"
                 ELSE /\ i' = i /\ pc' = "slw_attach"
              /\ UNCHANGED stopVars
         ELSE /\ BeginCleanup(<<[p |-> TcpProc(i), fifos |-> <<>>]>>)
              /\ UNCHANGED <<proc, kids, i>>
    /\ UNCHANGED <<cfgVars, status, sigVars, fs, termed, killed, crashes, listener,
                   timer, sshVars, probed, slwOK, histVars>>
    /\ UNCHANGED remVars
    /\ UNCHANGED unitVars

\* kids[0].fifos = append(kids[0].fifos, tmpDir); return kids, nil
AttachTmpDir ==
    /\ Alive /\ pc = "slw_attach"
    /\ kids' = IF Len(kids) > 0
               THEN [kids EXCEPT ![1].fifos = Append(@, TmpDir)]
               ELSE kids
    /\ slwOK' = TRUE
    /\ pc' = "assert"
    /\ i' = 1
    /\ timer' = ProbeWait
    /\ UNCHANGED <<cfgVars, status, sigVars, fs, procVars, stopVars,
                   sshVars, probed, histVars>>
    /\ UNCHANGED remVars
    /\ UNCHANGED unitVars

\* cleanup() after its stop loop: os.RemoveAll(tmpDir), then the error returns
CleanupFinish ==
    /\ Alive /\ pc = "slw_cleanup"
    /\ stopQ = <<>> /\ stopPhase = "idle"
    /\ fs' = RemovePath(TmpDir, fs)
    /\ pc' = "slw_failed"
    /\ UNCHANGED <<cfgVars, status, sigVars, procVars, kids, i, stopVars,
                   timer, sshVars, probed, slwOK, histVars>>
    /\ UNCHANGED remVars
    /\ UNCHANGED unitVars

\* main: die("Failed to start local wrappers")
DieStartFailed ==
    /\ Alive /\ pc = "slw_failed"
    /\ Die("start_failed")
    /\ UNCHANGED <<cfgVars, sigVars, fs, procVars, kids, i, stopVars, timer,
                   sshVars, probed, slwOK>>
    /\ UNCHANGED remVars
    /\ UNCHANGED unitVars

\* ---- child.stop ----------------------------------------------------------
\* mutant: stop without its nil guard
StopSkips_Never(c) == FALSE

\* c == nil || c.cmd == nil || c.cmd.Process == nil
StopSkips(c) == c.p = NoProc

\* mutant: the kill does not wait for the grace timer
GraceElapsed_Now == TRUE

\* <-time.After(grace)
GraceElapsed == timer = 0

\* <-done: the waiter's cmd.Wait() has returned
DoneReady(c) == ~Running(c.p)

StopReturn ==
    /\ stopQ' = Tail(stopQ)
    /\ stopPhase' = "idle"
    /\ timer' = 0

\* guard, Process.Signal(SIGTERM), go Wait, arm time.After(grace)
StopCall ==
    /\ Alive /\ stopPhase = "idle" /\ stopQ # <<>>
    /\ LET c == Head(stopQ) IN
       IF StopSkips(c)
       THEN /\ StopReturn
            /\ UNCHANGED <<termed, status, pc>>
       ELSE IF c.p = NoProc
            THEN /\ status' = "panic"
                 /\ pc' = "exited"
                 /\ UNCHANGED <<termed, stopQ, stopPhase, timer>>
            ELSE /\ termed' = IF Running(c.p) THEN termed \cup {c.p} ELSE termed
                 /\ stopPhase' = "select"
                 /\ timer' = grace
                 /\ UNCHANGED <<stopQ, status, pc>>
    /\ UNCHANGED <<cfgVars, sigVars, fs, proc, killed, crashes, listener, kids, i,
                   grace, sshVars, probed, slwOK, histVars>>
    /\ UNCHANGED remVars
    /\ UNCHANGED unitVars

\* case <-done: return
StopDone ==
    /\ Alive /\ stopPhase = "select"
    /\ LET c == Head(stopQ) IN
       /\ DoneReady(c)
       /\ proc' = [proc EXCEPT ![c.p] = "reaped"]
    /\ StopReturn
    /\ UNCHANGED <<cfgVars, pc, status, sigVars, fs, termed, killed, crashes, listener,
                   kids, i, grace, sshVars, probed, slwOK, histVars>>
    /\ UNCHANGED remVars
    /\ UNCHANGED unitVars

\* case <-time.After(grace): Process.Kill()
StopTimeout ==
    /\ Alive /\ stopPhase = "select"
    /\ GraceElapsed
    /\ LET c == Head(stopQ) IN
       /\ ~DoneReady(c)
       /\ killed' = killed \cup {c.p}
       /\ proc' = [proc EXCEPT ![c.p] = "exited"]
       /\ listener' = Released(c.p)
    /\ stopPhase' = "wait"
    /\ UNCHANGED <<cfgVars, pc, status, sigVars, fs, termed, crashes, kids, i, stopQ,
                   grace, timer, sshVars, probed, slwOK, histVars>>
    /\ UNCHANGED remVars
    /\ UNCHANGED unitVars

\* cmd.Wait() after the kill
StopWait ==
    /\ Alive /\ stopPhase = "wait"
    /\ proc' = [proc EXCEPT ![Head(stopQ).p] = "reaped"]
    /\ stopPhase' = "cleanup"
    /\ UNCHANGED <<cfgVars, pc, status, sigVars, fs, termed, killed, crashes, listener,
                   kids, i, stopQ, grace, timer, sshVars, probed, slwOK, histVars>>
    /\ UNCHANGED remVars
    /\ UNCHANGED unitVars

\* for _, path := range c.fifos: Stat, RemoveAll or Remove
StopCleanup ==
    /\ Alive /\ stopPhase = "cleanup"
    /\ fs' = RemovePaths(Head(stopQ).fifos, fs)
    /\ StopReturn
    /\ UNCHANGED <<cfgVars, pc, status, sigVars, procVars, kids, i, grace,
                   sshVars, probed, slwOK, histVars>>
    /\ UNCHANGED remVars
    /\ UNCHANGED unitVars

\* ---- the environment ---------------------------------------------------
\* a select (or the probe loop) of the control task has a ready branch
Wakeable ==
    \/ stopPhase = "select" /\ DoneReady(Head(stopQ))
    \/ pc = "assert" /\ i <= Len(cfg) /\ listener[cfg[i].wrap] # Free
    \/ pc = "reconnect_wait" /\ cancelled

\* one second passes on the timer the control task is blocked on
Tick ==
    /\ Alive /\ timer > 0 /\ ~Wakeable
    /\ timer' = timer - 1
    /\ elapsed' = IF pc = "reconnect_wait" THEN elapsed + 1 ELSE elapsed
    /\ UNCHANGED <<cfgVars, pc, status, sigVars, fs, procVars, kids, i,
                   stopVars, ssh, sshOK, launches, failures, cleanExits,
                   probed, slwOK, histVars>>
    /\ UNCHANGED remVars
    /\ UNCHANGED unitVars

\* a relay process exits: on SIGTERM, or on its own
ProcExit(p) ==
    /\ Alive /\ Running(p)
    /\ IF p \in termed
       THEN UNCHANGED crashes
       ELSE crashes < MaxCrashes /\ crashes' = crashes + 1
    /\ proc' = [proc EXCEPT ![p] = "exited"]
    /\ listener' = Released(p)
    /\ UNCHANGED <<cfgVars, pc, status, sigVars, fs, termed, killed, kids, i,
                   stopVars, timer, sshVars, probed, slwOK, histVars>>
    /\ UNCHANGED remVars
    /\ UNCHANGED unitVars

\* socat TCP4-LISTEN:wrap,bind=127.0.0.1 binds its port, or exits when
\* the port is taken
RelayBind(k) ==
    /\ Alive /\ k <= Len(cfg)
    /\ Running(TcpProc(k)) /\ ~Bound(TcpProc(k))
    /\ IF listener[cfg[k].wrap] = Free
       THEN /\ listener' = [listener EXCEPT ![cfg[k].wrap] = TcpProc(k)]
            /\ UNCHANGED proc
       ELSE /\ proc' = [proc EXCEPT ![TcpProc(k)] = "exited"]
            /\ UNCHANGED listener
    /\ UNCHANGED <<cfgVars, pc, status, sigVars, fs, termed, killed, crashes, kids,
                   i, stopVars, timer, sshVars, probed, slwOK, histVars>>
    /\ UNCHANGED remVars
    /\ UNCHANGED unitVars

\* SIGINT or SIGTERM is delivered to the program: cancels ctx while
\* signal.NotifyContext is in effect, terminates the program otherwise
Signal ==
    /\ Alive /\ sigs < MaxSignals
    /\ sigs' = sigs + 1
    /\ IF sigInstalled
       THEN /\ cancelled' = TRUE
            /\ UNCHANGED <<status, pc>>
       ELSE /\ status' = "signal"
            /\ pc' = "exited"
            /\ UNCHANGED cancelled
    /\ UNCHANGED <<cfgVars, sigInstalled, fs, procVars, kids, i, stopVars,
                   timer, sshVars, probed, slwOK, histVars>>
    /\ UNCHANGED remVars
    /\ UNCHANGED unitVars

\* ---- assertLocalWrappers / waitLocalListen / dialLocal --------------------
\* dialLocal(port): a connect to 127.0.0.1:port succeeds
DialLocal(port) == listener[port] # Free

\* time.Now().Before(deadline) is false
DeadlinePassed == timer = 0

\* waitLocalListen(u.WrapTCPPort, 3s) for forward i returns nil
ProbeOK ==
    /\ Alive /\ pc = "assert" /\ i <= Len(cfg)
    /\ ~DeadlinePassed /\ DialLocal(cfg[i].wrap)
    /\ probed' = probed \cup {i}
    /\ i' = i + 1
    /\ timer' = IF i < Len(cfg) THEN ProbeWait ELSE 0
    /\ UNCHANGED <<cfgVars, pc, status, sigVars, fs, procVars, kids, stopVars,
                   sshVars, slwOK, histVars>>
    /\ UNCHANGED remVars
    /\ UNCHANGED unitVars

\* waitLocalListen returns "port not listening"; main dies
ProbeFail ==
    /\ Alive /\ pc = "assert" /\ i <= Len(cfg)
    /\ DeadlinePassed
    /\ Die("health_failed")
    /\ UNCHANGED <<cfgVars, sigVars, fs, procVars, kids, i, stopVars, timer,
                   sshVars, probed, slwOK>>
    /\ UNCHANGED remVars
    /\ UNCHANGED unitVars

\* mutant: assertLocalWrappers returns nil without probing every forward
AssertLocalWrappers_NoProbe == TRUE

\* the loop of assertLocalWrappers is over: return nil
AssertLocalWrappers == i > Len(cfg)

\* ctx, cancel := signal.NotifyContext(...)
NotifyContext ==
    /\ Alive /\ pc = "assert" /\ AssertLocalWrappers
    /\ sigInstalled' = TRUE
    /\ pc' = "loop"
    /\ UNCHANGED <<cfgVars, status, cancelled, sigs, fs, procVars, kids, i,
                   stopVars, timer, sshVars, probed, slwOK, histVars>>
    /\ UNCHANGED remVars
    /\ UNCHANGED unitVars

\* ---- main: the reconnect loop, runTunnel ---------------------------------
\* return from main: the deferred functions run, last registered first
Return ==
    /\ pc' = "defer_cancel"
    /\ elapsed' = 0

\* mutant: the loop also ends when a local relay is found dead
LoopDone_OnDeadRelay == cancelled \/ \E p \in Procs : proc[p] = "exited"

\* ctx.Err() != nil at the head of the loop
LoopDone == cancelled

\* if ctx.Err() != nil { return }
LoopCheck ==
    /\ Alive /\ pc = "loop"
    /\ IF LoopDone
       THEN Return
       ELSE pc' = "ssh_start" /\ UNCHANGED elapsed
    /\ UNCHANGED <<cfgVars, status, sigVars, fs, procVars, kids, i, stopVars,
                   timer, ssh, sshOK, launches, failures, cleanExits, probed,
                   slwOK, histVars>>
    /\ UNCHANGED remVars
    /\ UNCHANGED unitVars

\* mutant: a command without a context, Start does not look at ctx
StartRefused_Never == FALSE

\* cmd.Start() of a command made by exec.CommandContext: ctx is done
StartRefused == cancelled

\* sshArgs, target := buildSSHArgs(cfg), then cmd.Start() of
\* exec.CommandContext: a done ctx makes Start return its error
StartCheck ==
    /\ Alive /\ pc = "ssh_start" /\ launches < MaxLaunches
    /\ args' = buildSSHArgs(conf, cfg)
    /\ UNCHANGED <<wll, net, rd>>
    /\ pc' = IF StartRefused THEN "run_err" ELSE "ssh_fork"
    /\ UNCHANGED <<cfgVars, status, sigVars, fs, procVars, kids, i, stopVars,
                   timer, sshVars, probed, slwOK, histVars>>
    /\ UNCHANGED remVars

\* cmd.Start(): the ssh process is started, or Start fails
StartFork ==
    /\ Alive /\ pc = "ssh_fork"
    /\ launches' = launches + 1
    /\ elapsed' = 0
    /\ \E ok \in BOOLEAN :
         IF ok
         THEN /\ ssh' = "running" /\ pc' = "ssh_wait"
         ELSE /\ ssh' = ssh /\ pc' = "run_err"
    /\ UNCHANGED <<cfgVars, status, sigVars, fs, procVars, kids, i, stopVars,
                   timer, sshOK, failures, cleanExits, probed, slwOK,
                   histVars>>
    /\ UNCHANGED remVars
    /\ UNCHANGED unitVars

\* the ssh process exits by itself, with status 0 or not
SSHExit ==
    /\ Alive /\ ssh = "running"
    /\ ssh' = "exited"
    /\ sshOK' \in BOOLEAN
    /\ UNCHANGED <<cfgVars, pc, status, sigVars, fs, procVars, kids, i,
                   stopVars, timer, launches, failures, cleanExits, elapsed,
                   probed, slwOK, histVars>>
    /\ UNCHANGED remVars
    /\ UNCHANGED unitVars

\* mutant: a command without a context is not killed when ctx is done
KillOnDone_Never == FALSE

\* the watcher of exec.CommandContext: <-ctx.Done()
KillOnDone == cancelled

\* exec.CommandContext with no cmd.Cancel set: when ctx is done the command's
\* process is killed with Process.Kill (SIGKILL), with no signal before it
CtxKill ==
    /\ Alive /\ ssh = "running" /\ KillOnDone
    /\ ssh' = "exited"
    /\ sshOK' = FALSE
    /\ hist' = hist \cup {"ssh_killed"}
    /\ UNCHANGED <<cfgVars, pc, status, sigVars, fs, procVars, kids, i,
                   stopVars, timer, launches, failures, cleanExits, elapsed,
                   probed, slwOK, calls>>
    /\ UNCHANGED remVars
    /\ UNCHANGED unitVars

\* mutant: runTunnel returns without waiting for the ssh process to exit
WaitDone_NoWait == TRUE

\* mutant: runTunnel returns on cancellation without waiting for ssh
WaitDone_OnCancel == ssh = "exited" \/ cancelled

\* cmd.Wait() returns: the ssh process has exited
WaitDone == ssh = "exited"

\* cmd.Wait() reaps the process that has exited
Reaped(s) == IF s = "exited" THEN "none" ELSE s

\* return cmd.Wait(); err == nil falls through to the reconnect wait
WaitReturn ==
    /\ Alive /\ pc = "ssh_wait" /\ WaitDone
    /\ ssh' = Reaped(ssh)
    /\ IF sshOK
       THEN /\ cleanExits' = cleanExits + 1
            /\ pc' = "reconnect_wait"
            /\ timer' = delay
            /\ elapsed' = 0
       ELSE /\ pc' = "run_err"
            /\ UNCHANGED <<cleanExits, timer, elapsed>>
    /\ UNCHANGED <<cfgVars, status, sigVars, fs, procVars, kids, i, stopVars,
                   sshOK, launches, failures, probed, slwOK, histVars>>
    /\ UNCHANGED remVars
    /\ UNCHANGED unitVars

\* mutant: main returns on every error of runTunnel
TerminatedBySignal_Always == TRUE

\* if ctx.Err() != nil after runTunnel returned an error
TerminatedBySignal == cancelled

\* runTunnel returned an error: return if ctx.Err() != nil, else log it
RunErr ==
    /\ Alive /\ pc = "run_err"
    /\ IF TerminatedBySignal
       THEN /\ Return
            /\ UNCHANGED <<failures, timer>>
       ELSE /\ failures' = failures + 1
            /\ pc' = "reconnect_wait"
            /\ timer' = delay
            /\ elapsed' = 0
    /\ UNCHANGED <<cfgVars, status, sigVars, fs, procVars, kids, i, stopVars,
                   ssh, sshOK, launches, cleanExits, probed, slwOK, histVars>>
    /\ UNCHANGED remVars
    /\ UNCHANGED unitVars

\* mutant: the loop continues without the delay having run out
DelayElapsed_Always == TRUE

\* case <-time.After(delay): continue the loop
DelayElapsed == timer = 0

\* mutant: the select has no ctx.Done() case
CtxDone_Never == FALSE

\* case <-ctx.Done(): return
CtxDone == cancelled

\* mutant: the bridges are built anew for every attempt
LoopHead_Rebuild == "main"

\* for { ... }: the delay branch of the select falls through to the head of
\* the loop
LoopHead == "loop"

SelectDelay ==
    /\ Alive /\ pc = "reconnect_wait"
    /\ DelayElapsed
    /\ pc' = LoopHead
    /\ UNCHANGED <<cfgVars, status, sigVars, fs, procVars, kids, i, stopVars,
                   timer, sshVars, probed, slwOK, histVars>>
    /\ UNCHANGED remVars
    /\ UNCHANGED unitVars

SelectDone ==
    /\ Alive /\ pc = "reconnect_wait"
    /\ CtxDone
    /\ Return
    /\ timer' = 0
    /\ UNCHANGED <<cfgVars, status, sigVars, fs, procVars, kids, i, stopVars,
                   ssh, sshOK, launches, failures, cleanExits, probed, slwOK,
                   histVars>>
    /\ UNCHANGED remVars
    /\ UNCHANGED unitVars

\* defer cancel(): cancels ctx and restores the default signal disposition;
\* then the deferred loop over localWrappers begins
DeferCancel ==
    /\ Alive /\ pc = "defer_cancel"
    /\ sigInstalled' = FALSE
    /\ cancelled' = TRUE
    /\ stopQ' = kids
    /\ grace' = DeferGrace
    /\ pc' = "defer_stop"
    /\ UNCHANGED <<cfgVars, status, sigs, fs, procVars, kids, i, stopPhase,
                   timer, sshVars, probed, slwOK, histVars>>
    /\ UNCHANGED remVars
    /\ UNCHANGED unitVars

\* every w.stop(2s) has returned: main returns, exit code 0
Exit ==
    /\ Alive /\ pc = "defer_stop"
    /\ stopQ = <<>> /\ stopPhase = "idle"
    /\ status' = "exit0"
    /\ pc' = "exited"
    /\ UNCHANGED <<cfgVars, sigVars, fs, procVars, kids, i, stopVars, timer,
                   sshVars, probed, slwOK, histVars>>
    /\ UNCHANGED remVars
    /\ UNCHANGED unitVars

Next ==
    \/ RequireBinary("ssh", "require_socat")
    \/ RequireBinary("socat", "load")
    \/ LoadConfig
    \/ Validate
    \/ StartLocalWrappers
    \/ CreateFIFOStep
    \/ SpawnTCP
    \/ SpawnUDP
    \/ AttachTmpDir
    \/ CleanupFinish
    \/ DieStartFailed
    \/ StopCall
    \/ StopDone
    \/ StopTimeout
    \/ StopWait
    \/ StopCleanup
    \/ Tick
    \/ \E p \in Procs : ProcExit(p)
    \/ \E k \in 1..MaxUDP : RelayBind(k)
    \/ Signal
    \/ ProbeOK
    \/ ProbeFail
    \/ NotifyContext
    \/ LoopCheck
    \/ StartCheck
    \/ StartFork
    \/ SSHExit
    \/ CtxKill
    \/ WaitReturn
    \/ RunErr
    \/ SelectDelay
    \/ SelectDone
    \/ DeferCancel
    \/ Exit

Spec == Init /\ [][Next]_vars

\* ---- child.stop on its own: any sequence of stop calls on two children ----
\* a child whose cmd.Process is nil, or a started one, with registered paths
StopChildren ==
    {<<a, b>> : a \in [p : {NoProc, 1}, fifos : {<<>>, <<1>>, <<1, TmpDir>>}],
                b \in [p : {NoProc, 2}, fifos : {<<>>, <<2>>}]}

InitStop ==
    /\ kids \in StopChildren
    /\ proc = [p \in Procs |->
                 IF \E n \in 1..Len(kids) : kids[n].p = p THEN "running" ELSE "none"]
    /\ fs = [dir |-> TRUE, files |-> {1, 2}, stuck |-> {}]
    /\ pc = "stop_calls"
    /\ cfg = <<>>
    /\ conf = [host |-> "vps", user |-> "root", key |-> "file",
               port |-> DefaultPort, strict |-> DefaultStrict, tcp |-> <<>>]
    /\ delay = DefaultDelay
    /\ windows = FALSE
    /\ listener = [q \in Ports |-> Free]
    /\ status = "running"
    /\ sigInstalled = FALSE
    /\ cancelled = FALSE
    /\ sigs = 0
    /\ termed = {}
    /\ killed = {}
    /\ crashes = 0
    /\ i = 1
    /\ stopQ = <<>>
    /\ stopPhase = "idle"
    /\ grace = 0
    /\ timer = 0
    /\ ssh = "none"
    /\ sshOK = FALSE
    /\ launches = 0
    /\ failures = 0
    /\ cleanExits = 0
    /\ elapsed = 0
    /\ probed = {}
    /\ slwOK = FALSE
    /\ calls = 0
    /\ hist = {}
    /\ args = NoArgs
    /\ wll = NoCall
    /\ net = NoTraffic
    /\ rd = NoDelay
    /\ RemoteOff

\* k.stop(g) is called on one of the children, stopped before or not
CallStop ==
    /\ Alive /\ pc = "stop_calls"
    /\ stopQ = <<>> /\ stopPhase = "idle"
    /\ calls < MaxCalls
    /\ \E n \in 1..Len(kids), g \in {CleanupGrace, DeferGrace} :
         /\ stopQ' = <<kids[n]>>
         /\ grace' = g
    /\ calls' = calls + 1
    /\ UNCHANGED <<cfgVars, pc, status, sigVars, fs, procVars, kids, i,
                   stopPhase, timer, sshVars, probed, slwOK, hist>>
    /\ UNCHANGED remVars
    /\ UNCHANGED unitVars

NextStop ==
    \/ CallStop
    \/ StopCall
    \/ StopDone
    \/ StopTimeout
    \/ StopWait
    \/ StopCleanup
    \/ Tick
    \/ \E p \in Procs : ProcExit(p)

SpecStop == InitStop /\ [][NextStop]_vars

\* ---- buildSSHArgs on its own: applied once to any loaded config ------------
\* the rest of the program is not running
Unstarted ==
    /\ delay = DefaultDelay
    /\ windows = FALSE
    /\ status = "running"
    /\ sigInstalled = FALSE
    /\ cancelled = FALSE
    /\ sigs = 0
    /\ fs = EmptyFS
    /\ proc = [p \in Procs |-> "none"]
    /\ termed = {}
    /\ killed = {}
    /\ crashes = 0
    /\ kids = <<>>
    /\ i = 1
    /\ stopQ = <<>>
    /\ stopPhase = "idle"
    /\ grace = 0
    /\ timer = 0
    /\ ssh = "none"
    /\ sshOK = FALSE
    /\ launches = 0
    /\ failures = 0
    /\ cleanExits = 0
    /\ elapsed = 0
    /\ probed = {}
    /\ slwOK = FALSE
    /\ calls = 0
    /\ hist = {}
    /\ RemoteOff

InitArgs ==
    /\ conf \in ArgConfs
    /\ cfg \in ArgUDPs
    /\ pc = "args"
    /\ listener = [q \in Ports |-> Free]
    /\ args = NoArgs
    /\ wll = NoCall
    /\ net = NoTraffic
    /\ rd = NoDelay
    /\ Unstarted

\* sshArgs, target := buildSSHArgs(cfg)
BuildSSHArgs ==
    /\ pc = "args"
    /\ args' = buildSSHArgs(conf, cfg)
    /\ UNCHANGED <<wll, net, rd>>
    /\ pc' = "args_done"
    /\ UNCHANGED <<cfgVars, status, sigVars, fs, procVars, kids, i, stopVars,
                   timer, sshVars, probed, slwOK, histVars>>
    /\ UNCHANGED remVars

NextArgs == BuildSSHArgs

SpecArgs == InitArgs /\ [][NextArgs]_vars

\* ---- waitLocalListen on its own, timed in steps of 25 ms --------------------
\* The port can gain and lose its listener at any time.  A connect attempt
\* returns at any time up to its timeout: with success only while the port
\* is listened on, with an error otherwise or when the timeout has run out.
InitProbe ==
    /\ wll \in [port : {1}, maxWait : MaxWaits, now : {0}, at : {"check"},
                left : {0}, res : {"none"}]
    /\ listener \in [Ports -> {Free, Foreign}]
    /\ pc = "probe"
    /\ cfg = <<>>
    /\ conf = [host |-> "vps", user |-> "root", key |-> "file",
               port |-> DefaultPort, strict |-> DefaultStrict, tcp |-> <<>>]
    /\ args = NoArgs
    /\ net = NoTraffic
    /\ rd = NoDelay
    /\ Unstarted

ProbeFrame ==
    /\ UNCHANGED <<cfgVars, pc, status, sigVars, fs, proc, termed, killed, crashes,
                   kids, i, stopVars, timer, sshVars, probed, slwOK, histVars,
                   args, net, rd>>
    /\ UNCHANGED remVars

\* for time.Now().Before(deadline): the next attempt, or the error return
WllCheck ==
    /\ pc = "probe" /\ wll.at = "check"
    /\ wll' = IF wll.now < wll.maxWait
              THEN [wll EXCEPT !.at = "dial", !.left = DialTimeout]
              ELSE [wll EXCEPT !.at = "returned", !.res = "not_listening"]
    /\ UNCHANGED listener
    /\ ProbeFrame

\* dialLocal returns nil: return nil
WllDialOK ==
    /\ pc = "probe" /\ wll.at = "dial"
    /\ DialLocal(wll.port)
    /\ wll' = [wll EXCEPT !.at = "returned", !.res = "ok"]
    /\ UNCHANGED listener
    /\ ProbeFrame

\* dialLocal returns an error (refused, or the 150 ms have run out):
\* time.Sleep(75 * time.Millisecond) begins
WllDialErr ==
    /\ pc = "probe" /\ wll.at = "dial"
    /\ ~DialLocal(wll.port) \/ wll.left = 0
    /\ wll' = [wll EXCEPT !.at = "sleep", !.left = ProbeSleep]
    /\ UNCHANGED listener
    /\ ProbeFrame

\* the sleep is over: back to the loop condition
WllSleepDone ==
    /\ pc = "probe" /\ wll.at = "sleep" /\ wll.left = 0
    /\ wll' = [wll EXCEPT !.at = "check"]
    /\ UNCHANGED listener
    /\ ProbeFrame

\* 25 ms pass while the call is inside a connect attempt or its sleep
WllTick ==
    /\ pc = "probe" /\ wll.at \in {"dial", "sleep"} /\ wll.left > 0
    /\ wll' = [wll EXCEPT !.now = @ + 1, !.left = @ - 1]
    /\ UNCHANGED listener
    /\ ProbeFrame

\* a process starts or stops listening on the port
PortFlip ==
    /\ pc = "probe" /\ wll.at # "returned"
    /\ listener' = [listener EXCEPT ![wll.port] = IF @ = Free THEN Foreign ELSE Free]
    /\ UNCHANGED wll
    /\ ProbeFrame

NextProbe ==
    \/ WllCheck
    \/ WllDialOK
    \/ WllDialErr
    \/ WllSleepDone
    \/ WllTick
    \/ PortFlip

SpecProbe == InitProbe /\ [][NextProbe]_vars

\* ---- the data path of one established UDP bridge ----------------------------
\* The four relays of the forward run and the ssh reverse-forward carries the
\* TCP connection of the remote TCP relay to the local one.  A socat PIPE
\* address on a named pipe reads and writes the same FIFO, so what a relay
\* writes into the FIFO is read by whichever of the two relays that have it
\* open reads first.  A datagram is [id, echoes]: echoes counts how often the
\* service has answered it.
InitData ==
    /\ net = NoTraffic
    /\ cfg = <<[pub |-> 9002, wrap |-> 10000, lport |-> 8002, host |-> "127.0.0.1"]>>
    /\ conf = [host |-> "vps", user |-> "root", key |-> "file",
               port |-> DefaultPort, strict |-> DefaultStrict, tcp |-> <<>>]
    /\ listener = [q \in Ports |-> Free]
    /\ pc = "data"
    /\ args = NoArgs
    /\ wll = NoCall
    /\ rd = NoDelay
    /\ Unstarted

DataFrame ==
    /\ UNCHANGED <<cfgVars, pc, status, sigVars, fs, procVars, kids, i,
                   stopVars, timer, sshVars, probed, slwOK, histVars, args, wll,
                   rd>>
    /\ UNCHANGED remVars

\* one relay takes the datagram at the head of `from` and writes it to `to`
Move(from, to) ==
    /\ pc = "data" /\ net.ch[from] # <<>>
    /\ net' = [net EXCEPT !.ch[from] = Tail(@),
                          !.ch[to] = Append(@, Head(net.ch[from]))]
    /\ DataFrame

\* the client sends its next datagram to <VPS>:<UDPPublicPort>
SendDatagram ==
    /\ pc = "data" /\ net.sent < MaxPackets
    /\ net' = [net EXCEPT !.sent = @ + 1,
                          !.ch["toPublic"] = Append(@, [id |-> net.sent + 1, echoes |-> 0])]
    /\ DataFrame

\* the service on LocalHost:LocalUDPPort answers a datagram with its echo
ServiceEcho ==
    /\ pc = "data" /\ net.ch["toService"] # <<>>
    /\ LET m == Head(net.ch["toService"]) IN
       net' = [net EXCEPT !.ch["toService"] = Tail(@),
                          !.ch["fromService"] =
                              Append(@, [m EXCEPT !.echoes = IF @ < 2 THEN @ + 1 ELSE @])]
    /\ DataFrame

\* socat UDP-LISTEN:<pub>,fork PIPE:"$FIFO_PATH" on the VPS
RemoteUDPRelay ==
    \/ Move("toPublic", "remoteFifo")
    \/ Move("remoteFifo", "toSender")

\* socat PIPE:"$FIFO_PATH" TCP:127.0.0.1:<wrap> on the VPS
RemoteTCPRelay ==
    \/ Move("remoteFifo", "tcpDown")
    \/ Move("tcpUp", "remoteFifo")

\* socat TCP4-LISTEN:<wrap>,bind=127.0.0.1,reuseaddr,fork PIPE:<fifoPath>
LocalTCPRelay ==
    \/ Move("tcpDown", "localFifo")
    \/ Move("localFifo", "tcpUp")

\* socat PIPE:<fifoPath> UDP:<LocalHost>:<LocalUDPPort>
LocalUDPRelay ==
    \/ Move("localFifo", "toService")
    \/ Move("fromService", "localFifo")

NextData ==
    \/ SendDatagram
    \/ ServiceEcho
    \/ RemoteUDPRelay
    \/ RemoteTCPRelay
    \/ LocalTCPRelay
    \/ LocalUDPRelay

SpecData == InitData /\ [][NextData]_vars

\* ---- the reconnect delay on its own, in the integers of the program --------
\* loadConfig, then rounds of the loop in which the session ends at once:
\* the delay is turned into a time.Duration and the select waits for it
InitDelay ==
    /\ rd \in [raw : DelayInputs, secs : {Int64(0)}, dur : {Int64(0)},
               at : {"load"}, waits : {0}, slept : {FALSE}]
    /\ pc = "delay"
    /\ cfg = <<>>
    /\ conf = [host |-> "vps", user |-> "root", key |-> "file",
               port |-> DefaultPort, strict |-> DefaultStrict, tcp |-> <<>>]
    /\ listener = [q \in Ports |-> Free]
    /\ args = NoArgs
    /\ wll = NoCall
    /\ net = NoTraffic
    /\ Unstarted

DelayFrame ==
    /\ UNCHANGED <<cfgVars, pc, status, sigVars, fs, procVars, kids, i,
                   stopVars, timer, sshVars, probed, slwOK, histVars, args, wll,
                   net>>
    /\ UNCHANGED remVars

\* loadConfig applies the default
DelayLoad ==
    /\ pc = "delay" /\ rd.at = "load"
    /\ rd' = [rd EXCEPT !.secs = LoadDelay64(rd.raw), !.at = "loop"]
    /\ DelayFrame

\* runTunnel has returned: select on time.After(Duration * time.Second)
DelayArm ==
    /\ pc = "delay" /\ rd.at = "loop" /\ rd.waits < MaxRounds
    /\ rd' = [rd EXCEPT !.dur = Duration(rd.secs), !.at = "select",
                        !.slept = FALSE]
    /\ DelayFrame

\* the duration of a timer that does not fire at once passes
DelayPass ==
    /\ pc = "delay" /\ rd.at = "select"
    /\ ~FiresAtOnce(rd.dur) /\ ~rd.slept
    /\ rd' = [rd EXCEPT !.slept = TRUE]
    /\ DelayFrame

\* case <-time.After(...): the loop continues with the next launch
DelayFire ==
    /\ pc = "delay" /\ rd.at = "select"
    /\ FiresAtOnce(rd.dur) \/ rd.slept
    /\ rd' = [rd EXCEPT !.at = "loop", !.waits = @ + 1]
    /\ DelayFrame

NextDelay ==
    \/ DelayLoad
    \/ DelayArm
    \/ DelayPass
    \/ DelayFire

SpecDelay == InitDelay /\ [][NextDelay]_vars

\* ---- buildRemoteScript: the generated script as it runs on the VPS ----------
\* One run of the script for each ssh session that gets as far as its remote
\* command; the session ends when the script ends.  A relay that has died
\* is reaped by the shell at once, or stays a zombie ("dead") until the shell
\* waits for its next sleep; kill -0 fails on a reaped pid only.  When the
\* shell is gone its children are reaped as they die.

\* $! of the next background job of this run
NewPid == (rrun - 1) * 2 * MaxUDP + Len(rpids) + 1

\* FIFO_DIR="$(mktemp -d -t ssh-socat-tunnel-XXXXXX)": a name no run had before
FifoDir == rrun

\* FIFO_PATH="$FIFO_DIR/pipe-<UDPPublicPort>"
RemoteFifo(u) == <<FifoDir, u.pub>>

\* the two relays of forward u: UDP-LISTEN:<pub> <-> PIPE, PIPE <-> TCP:<wrap>
UDPRelay(pid, u) ==
    [pid |-> pid, kind |-> "udp", port |-> u.pub, dir |-> FifoDir, pipe |-> u.pub]
TCPRelay(pid, u) ==
    [pid |-> pid, kind |-> "tcp", port |-> u.wrap, dir |-> FifoDir, pipe |-> u.pub]

\* for p in $pids; do kill "$p" 2>/dev/null || true; done
KillPids(procs) ==
    [p \in RPids |->
        IF p \in Range(rpids) /\ procs[p] = "running" THEN "dead" ELSE procs[p]]

\* rm -rf "$FIFO_DIR" 2>/dev/null || true
RmDir(f) ==
    [f EXCEPT !.dirs = @ \ {FifoDir}, !.fifos = {x \in @ : x[1] # FifoDir}]

\* cleanup()
Cleanup ==
    /\ rprocs' = KillPids(rprocs)
    /\ rfs' = RmDir(rfs)
    /\ rcleanups' = rcleanups + 1

\* the shell reaps every child that has died
ReapAll(procs) == [p \in RPids |-> IF procs[p] = "dead" THEN "reaped" ELSE procs[p]]

\* mutant: the watchdog never finds a pid gone
PidGone_Never(p) == FALSE

\* ! kill -0 "$p" 2>/dev/null
PidGone(p) == rprocs[p] \notin {"running", "dead"}

\* mutant: the watchdog leaves with exit 0
WatchdogExit_Zero == 1 - 1

\* exit 1 of the watchdog
WatchdogExit == 1

\* mutant: the sleep loop ends after one sleep
HoldNext_Exit == "exit"

\* while true; do sleep 3600; done
HoldNext == "hold"

\* mutant: the script goes on without its check of socat
SocatFound_Always == TRUE

\* [ -n "$SOCAT_BIN" ]: command -v socat found a binary on the PATH
SocatFound == rfs.socat

\* sshd runs the remote command of the session
RemoteConnect ==
    /\ ssh = "running" /\ rrun < launches
    /\ rpc \in {"off", "done"}
    /\ rpc' = "check"
    /\ rrun' = launches
    /\ rj' = 1 /\ rk' = 1
    /\ rpids' = <<>>
    /\ rtrap' = FALSE /\ rpend' = FALSE
    /\ rcleanups' = 0 /\ rcode' = 0 /\ rdiag' = FALSE /\ lag' = 0
    /\ UNCHANGED <<rprocs, rbridge, rfs, rsigs, localVars>>

\* SOCAT_BIN="$(command -v socat || true)"; if [ -z "$SOCAT_BIN" ]; ... exit 1
RCheckSocat ==
    /\ rpc = "check" /\ ~rpend
    /\ IF SocatFound
       THEN rpc' = "mktemp" /\ UNCHANGED <<rcode, rdiag>>
       ELSE rpc' = "exit" /\ rcode' = 1 /\ rdiag' = TRUE
    /\ UNCHANGED <<rrun, rj, rk, rpids, rprocs, rbridge, rfs, rtrap, rpend,
                   rcleanups, rsigs, lag, localVars>>

\* pids=""; FIFO_DIR="$(mktemp -d ...)": under set -e a failing mktemp exits
RMktemp ==
    /\ rpc = "mktemp" /\ ~rpend
    /\ \E ok \in BOOLEAN :
         IF ok
         THEN /\ rfs' = [rfs EXCEPT !.dirs = @ \cup {FifoDir}]
              /\ rpc' = "trap"
              /\ UNCHANGED rcode
         ELSE /\ rpc' = "exit" /\ rcode' = 1
              /\ UNCHANGED rfs
    /\ UNCHANGED <<rrun, rj, rk, rpids, rprocs, rbridge, rtrap, rpend,
                   rcleanups, rdiag, rsigs, lag, localVars>>

\* cleanup(){...}; trap cleanup INT TERM EXIT; then the branch on the number
\* of UDP forwards the script was generated for
RTrap ==
    /\ rpc = "trap" /\ ~rpend
    /\ rtrap' = TRUE
    /\ rpc' = IF Len(cfg) = 0 THEN "hold" ELSE "fuser"
    /\ rj' = 1
    /\ UNCHANGED <<rrun, rk, rpids, rprocs, rbridge, rfs, rpend, rcleanups,
                   rcode, rdiag, rsigs, lag, localVars>>

\* while true; do sleep 3600: a sleep begins
RHold ==
    /\ rpc = "hold" /\ ~rpend
    /\ rpc' = "hold_sleep"
    /\ UNCHANGED <<rrun, rj, rk, rpids, rprocs, rbridge, rfs, rtrap, rpend,
                   rcleanups, rcode, rdiag, rsigs, lag, localVars>>

\* the sleep 3600 is over; done
RHoldSleepDone ==
    /\ rpc = "hold_sleep"
    /\ rpc' = HoldNext
    /\ rprocs' = ReapAll(rprocs)
    /\ UNCHANGED <<rrun, rj, rk, rpids, rbridge, rfs, rtrap, rpend,
                   rcleanups, rcode, rdiag, rsigs, lag, localVars>>

\* if command -v fuser ...; then fuser -k <pub>/udp 2>/dev/null || true; fi
RFuser ==
    /\ rpc = "fuser" /\ ~rpend
    /\ \E has \in BOOLEAN :
         rprocs' = [p \in RPids |->
                      IF /\ has
                         /\ rprocs[p] = "running"
                         /\ \E b \in rbridge : /\ b.pid = p /\ b.kind = "udp"
                                               /\ b.port = cfg[rj].pub
                      THEN "dead" ELSE rprocs[p]]
    /\ rpc' = "mkfifo"
    /\ UNCHANGED <<rrun, rj, rk, rpids, rbridge, rfs, rtrap, rpend,
                   rcleanups, rcode, rdiag, rsigs, lag, localVars>>

\* FIFO_PATH=...; mkfifo -m 600 "$FIFO_PATH": under set -e a failure exits
RMkfifo ==
    /\ rpc = "mkfifo" /\ ~rpend
    /\ LET path == RemoteFifo(cfg[rj])
           can == FifoDir \in rfs.dirs /\ path \notin rfs.fifos
       IN \E ok \in BOOLEAN :
            IF ok /\ can
            THEN /\ rfs' = [rfs EXCEPT !.fifos = @ \cup {path}]
                 /\ rpc' = "spawn_udp"
                 /\ UNCHANGED rcode
            ELSE /\ rpc' = "exit" /\ rcode' = 1
                 /\ UNCHANGED rfs
    /\ UNCHANGED <<rrun, rj, rk, rpids, rprocs, rbridge, rtrap, rpend,
                   rcleanups, rdiag, rsigs, lag, localVars>>

\* "$SOCAT_BIN" -T 30 UDP-LISTEN:<pub>,... PIPE:"$FIFO_PATH" ... &
RSpawnUDP ==
    /\ rpc = "spawn_udp" /\ ~rpend
    /\ rprocs' = [rprocs EXCEPT ![NewPid] = "running"]
    /\ rbridge' = rbridge \cup {UDPRelay(NewPid, cfg[rj])}
    /\ rpc' = "record_udp"
    /\ UNCHANGED <<rrun, rj, rk, rpids, rfs, rtrap, rpend, rcleanups, rcode,
                   rdiag, rsigs, lag, localVars>>

\* pids="$pids $!" after the UDP relay
RRecordUDP ==
    /\ rpc = "record_udp" /\ ~rpend
    /\ rpids' = Append(rpids, NewPid)
    /\ rpc' = "spawn_tcp"
    /\ UNCHANGED <<rrun, rj, rk, rprocs, rbridge, rfs, rtrap, rpend, rcleanups,
                   rcode, rdiag, rsigs, lag, localVars>>

\* "$SOCAT_BIN" -T 30 PIPE:"$FIFO_PATH" TCP:127.0.0.1:<wrap> ... &
RSpawnTCP ==
    /\ rpc = "spawn_tcp" /\ ~rpend
    /\ rprocs' = [rprocs EXCEPT ![NewPid] = "running"]
    /\ rbridge' = rbridge \cup {TCPRelay(NewPid, cfg[rj])}
    /\ rpc' = "record_tcp"
    /\ UNCHANGED <<rrun, rj, rk, rpids, rfs, rtrap, rpend, rcleanups, rcode,
                   rdiag, rsigs, lag, localVars>>

\* pids="$pids $!" after the TCP relay; then the next forward, or the
\* watchdog loop
RRecordTCP ==
    /\ rpc = "record_tcp" /\ ~rpend
    /\ rpids' = Append(rpids, NewPid)
    /\ IF rj < Len(cfg)
       THEN rj' = rj + 1 /\ rpc' = "fuser" /\ rk' = rk
       ELSE rj' = rj /\ rpc' = "poll" /\ rk' = 1
    /\ UNCHANGED <<rrun, rprocs, rbridge, rfs, rtrap, rpend, rcleanups, rcode,
                   rdiag, rsigs, lag, localVars>>

\* for p in $pids; do if ! kill -0 "$p"; then echo ... >&2; exit 1; fi; done;
\* after the last pid: sleep 5 begins
RPoll ==
    /\ rpc = "poll" /\ ~rpend
    /\ IF PidGone(rpids[rk])
       THEN /\ rdiag' = TRUE
            /\ rcode' = WatchdogExit
            /\ rpc' = "exit"
            /\ UNCHANGED <<rk, lag>>
       ELSE IF rk < Len(rpids)
            THEN /\ rk' = rk + 1
                 /\ UNCHANGED <<rpc, rcode, rdiag, lag>>
            ELSE /\ rpc' = "sleep"
                 /\ rk' = 1
                 /\ lag' = IF \E p \in Range(rpids) : rprocs[p] # "running"
                           THEN lag + 1 ELSE lag
                 /\ UNCHANGED <<rcode, rdiag>>
    /\ UNCHANGED <<rrun, rj, rpids, rprocs, rbridge, rfs, rtrap, rpend,
                   rcleanups, rsigs, localVars>>

\* the sleep 5 is over; done: the next poll begins
RSleepDone ==
    /\ rpc = "sleep"
    /\ rpc' = "poll"
    /\ rprocs' = ReapAll(rprocs)
    /\ UNCHANGED <<rrun, rj, rk, rpids, rbridge, rfs, rtrap, rpend,
                   rcleanups, rcode, rdiag, rsigs, lag, localVars>>

\* mutant: trap cleanup INT TERM, without EXIT
TrapOnExit_Never == FALSE

\* trap cleanup ... EXIT is in effect
TrapOnExit == rtrap

\* the script exits: the EXIT trap runs cleanup, if the trap has been set
RExit ==
    /\ rpc = "exit" /\ ~rpend
    /\ IF TrapOnExit
       THEN /\ rprocs' = ReapAll(KillPids(rprocs))
            /\ rfs' = RmDir(rfs)
            /\ rcleanups' = rcleanups + 1
       ELSE UNCHANGED <<rprocs, rfs, rcleanups>>
    /\ rpc' = "done"
    /\ UNCHANGED <<rrun, rj, rk, rpids, rbridge, rtrap, rpend, rcode, rdiag,
                   rsigs, lag, localVars>>

\* the trap action of a pending INT or TERM runs once the command in the
\* foreground is over: cleanup, and the script goes on where it was
RTrapRun ==
    /\ rpend /\ rpc \notin {"sleep", "hold_sleep", "off", "done"}
    /\ Cleanup
    /\ rpend' = FALSE
    /\ UNCHANGED <<rpc, rrun, rj, rk, rpids, rbridge, rtrap, rcode, rdiag,
                   rsigs, lag, localVars>>

\* SIGINT or SIGTERM is sent to the script: trapped, or it kills the shell
RSignal ==
    /\ rpc \notin {"off", "done"} /\ rsigs < MaxRemoteSignals
    /\ rsigs' = rsigs + 1
    /\ IF rtrap
       THEN rpend' = TRUE /\ UNCHANGED <<rpc, rcode>>
       ELSE rpc' = "done" /\ rcode' = 128 + 15 /\ UNCHANGED rpend
    /\ UNCHANGED <<rrun, rj, rk, rpids, rprocs, rbridge, rfs, rtrap,
                   rcleanups, rdiag, lag, localVars>>

\* a relay on the VPS dies: killed, or it could not bind its port
RRelayDie(p) ==
    /\ rprocs[p] = "running"
    /\ \E st \in {"dead", "reaped"} :
         rprocs' = [rprocs EXCEPT ![p] = IF rpc = "done" THEN "reaped" ELSE st]
    /\ UNCHANGED <<rpc, rrun, rj, rk, rpids, rbridge, rfs, rtrap, rpend,
                   rcleanups, rcode, rdiag, rsigs, lag, localVars>>

\* the remote command is over: ssh exits with its status
RemoteDone ==
    /\ ssh = "running" /\ rrun = launches /\ rpc = "done"
    /\ ssh' = "exited"
    /\ sshOK' = (rcode = 0)
    /\ UNCHANGED <<cfgVars, pc, status, sigVars, fs, procVars, kids, i,
                   stopVars, timer, launches, failures, cleanExits, elapsed,
                   probed, slwOK, histVars, remVars, unitVars>>

\* ssh exits before its remote command was run
ConnectFail ==
    /\ rrun < launches
    /\ SSHExit
    /\ sshOK' = FALSE

\* ---- the session loop with the remote script: main from its loop on -------
\* the children startLocalWrappers returns for the forwards of c
KidsOf(c) ==
    [n \in 1..(2 * Len(c)) |->
        IF n % 2 = 1
        THEN [p |-> n, fifos |-> IF n = 1 THEN <<FifoPath(c[1]), TmpDir>>
                                          ELSE <<FifoPath(c[(n + 1) \div 2])>>]
        ELSE [p |-> n, fifos |-> <<>>]]

\* the first forward that listens on wrap port q
FirstOn(c, q) == CHOOSE k \in 1..Len(c) : c[k].wrap = q /\ \A l \in 1..(k - 1) : c[l].wrap # q

\* main at the head of its loop: the bridges are up and probed, the signal
\* context is installed, no session has been launched; the forwards have
\* pairwise distinct ports; the removal of the paths in stuck will fail
LoopEntered(stuck) ==
    /\ cfg \in {c \in Configs : \A k \in 1..Len(c) : c[k].pub = k /\ c[k].wrap = k}
    /\ conf = [host |-> "vps", user |-> "root", key |-> "file",
               port |-> DefaultPort, strict |-> DefaultStrict, tcp |-> <<>>]
    /\ delay \in {LoadDelay(raw) : raw \in 0..1}
    /\ windows = FALSE
    /\ pc = "loop"
    /\ status = "running"
    /\ sigInstalled = TRUE
    /\ cancelled = FALSE
    /\ sigs = 0
    /\ fs = [dir |-> Len(cfg) > 0, stuck |-> stuck,
             files |-> {FifoPath(cfg[k]) : k \in 1..Len(cfg)}]
    /\ kids = KidsOf(cfg)
    /\ listener = [q \in Ports |->
                     IF \E k \in 1..Len(cfg) : cfg[k].wrap = q
                     THEN TcpProc(FirstOn(cfg, q)) ELSE Free]
    /\ proc = [p \in Procs |->
                 IF p > 2 * Len(cfg) THEN "none"
                 ELSE IF p % 2 = 1 /\ ~(\E q \in Ports : listener[q] = p)
                      THEN "exited" ELSE "running"]
    /\ termed = {}
    /\ killed = {}
    /\ crashes = 0
    /\ i = Len(cfg) + 1
    /\ stopQ = <<>>
    /\ stopPhase = "idle"
    /\ grace = 0
    /\ timer = 0
    /\ ssh = "none"
    /\ sshOK = FALSE
    /\ launches = 0
    /\ failures = 0
    /\ cleanExits = 0
    /\ elapsed = 0
    /\ probed = 1..Len(cfg)
    /\ slwOK = TRUE
    /\ calls = 0
    /\ hist = {}
    /\ args = NoArgs
    /\ wll = NoCall
    /\ net = NoTraffic
    /\ rd = NoDelay
    /\ \E socat \in BOOLEAN : RemoteIdle(VPS(socat))

InitSession == LoopEntered({})

NextSession ==
    \/ LoopCheck
    \/ StartCheck
    \/ StartFork
    \/ ConnectFail
    \/ CtxKill
    \/ WaitReturn
    \/ RunErr
    \/ SelectDelay
    \/ SelectDone
    \/ Tick
    \/ Signal
    \/ RemoteConnect
    \/ RCheckSocat
    \/ RMktemp
    \/ RTrap
    \/ RHold
    \/ RHoldSleepDone
    \/ RFuser
    \/ RMkfifo
    \/ RSpawnUDP
    \/ RRecordUDP
    \/ RSpawnTCP
    \/ RRecordTCP
    \/ RPoll
    \/ RSleepDone
    \/ RExit
    \/ RTrapRun
    \/ RSignal
    \/ \E p \in RPids : RRelayDie(p)
    \/ RemoteDone

SpecSession == InitSession /\ [][NextSession]_vars

\* the steps of the remote shell: a script that can run its next command runs it
RemoteStep ==
    \/ RemoteConnect \/ RCheckSocat \/ RMktemp \/ RTrap \/ RHold \/ RHoldSleepDone
    \/ RFuser \/ RMkfifo \/ RSpawnUDP \/ RRecordUDP \/ RSpawnTCP \/ RRecordTCP
    \/ RPoll \/ RSleepDone
    \/ RExit \/ RTrapRun

\* the steps of the main goroutine in the reconnect loop, its timer included
SupervisorStep ==
    \/ LoopCheck \/ StartCheck \/ StartFork \/ CtxKill \/ WaitReturn \/ RunErr
    \/ SelectDelay \/ SelectDone \/ Tick

\* the shell, the ssh client whose remote command has ended, and the main
\* goroutine each take their next step when it stays possible; signals,
\* relay deaths and failed connections are under no obligation to happen
SessionFair ==
    /\ WF_vars(RemoteStep)
    /\ WF_vars(RemoteDone)
    /\ WF_vars(SupervisorStep)

SpecSessionLive == InitSession /\ [][NextSession]_vars /\ SessionFair

\* ---- the loop and the teardown, without the remote script -----------------
\* main from its loop on, as in InitSession, with the deferred stops
InitShutdown == InitSession /\ rfs.socat

\* the steps of the main goroutine from the loop to its exit, its timers
\* included
MainStep ==
    \/ LoopCheck \/ StartCheck \/ StartFork \/ WaitReturn \/ RunErr
    \/ SelectDelay \/ SelectDone \/ DeferCancel
    \/ StopCall \/ StopDone \/ StopTimeout \/ StopWait \/ StopCleanup
    \/ Exit \/ Tick

NextShutdown ==
    \/ MainStep
    \/ CtxKill
    \/ SSHExit
    \/ Signal
    \/ \E p \in Procs : ProcExit(p)

\* the main goroutine and the context watcher of the ssh command run when
\* they can; signals and exits of the processes are under no obligation
SpecShutdown ==
    InitShutdown /\ [][NextShutdown]_vars /\ WF_vars(MainStep) /\ WF_vars(CtxKill)

\* ---- the teardown with paths that cannot be removed -------------------------
\* as InitShutdown, on a file system that refuses the removal of some of the
\* paths of the run
InitTeardown ==
    \E stuck \in SUBSET ({TmpDir} \cup Ports) : LoopEntered(stuck) /\ rfs.socat

SpecTeardown ==
    InitTeardown /\ [][NextShutdown]_vars /\ WF_vars(MainStep) /\ WF_vars(CtxKill)

\* ---- properties -----------------------------------------------------------
PathExists(path, f) == IF path = TmpDir THEN f.dir ELSE path \in f.files
Ended == failures + cleanExits
InSession == pc \in {"ssh_start", "ssh_fork", "ssh_wait", "run_err"}
Stopped(p) == proc[p] \in {"none", "reaped"}

\* C1: no SSH session is launched (no cmd.Start on ssh, no ssh process) unless
\* startLocalWrappers has returned successfully and waitLocalListen has
\* succeeded for the wrap port of every configured UDP forward.
C1_NoSessionBeforeHealthy ==
    (launches > 0 \/ ssh # "none" \/ InSession)
        => (slwOK /\ probed = 1..Len(cfg))

C1_Witness ==
    /\ ssh = "running"
    /\ Len(cfg) >= 2
    /\ probed = 1..Len(cfg)

\* C2: in the reconnect loop every ended session (failed or not) is followed
\* by exactly one more launch, so after N failures in a row the supervisor is
\* in its (N+1)-th launch; a launch after the first happens only when the
\* whole configured delay has elapsed since the previous session ended; and
\* once the loop is entered the supervisor leaves it only after a signal
\* (never with exit code 1, never by itself).
C2_ReconnectLoop ==
    /\ launches \in {Ended, Ended + 1}
    /\ pc = "ssh_wait" => launches = Ended + 1
    /\ pc \in {"loop", "ssh_start", "ssh_fork", "reconnect_wait"} => launches = Ended
    /\ (pc \in {"loop", "ssh_start", "ssh_fork"} /\ Ended > 0) => elapsed = delay
    /\ launches > 0 => status \notin {"exit1", "panic"}
    /\ (pc \in {"defer_cancel", "defer_stop"} \/ status = "exit0") => sigs > 0

C2_Witness ==
    /\ pc = "ssh_wait" /\ ssh = "running"
    /\ failures >= 1 /\ cleanExits = 0
    /\ launches = failures + 1
    /\ ~cancelled

\* C3 (as claimed): whenever the program has ended after an interrupt or
\* termination signal, it ended with exit code 0 and no local relay process
\* is left running.
C3_SignalAlwaysShutsDown ==
    (sigs > 0 /\ ~Alive) => (status = "exit0" /\ \A p \in Procs : ~Running(p))

\* C4 (as claimed): after a cancellation-triggered shutdown of a run with at
\* least one UDP forward, no FIFO file and no temporary directory remains.
C4_NothingLeftAfterShutdown ==
    (status = "exit0" /\ Len(cfg) >= 1) => fs = EmptyFS

\* C5 (as claimed): after a failed port health check the program has exited
\* non-zero without any SSH launch and every started relay has been stopped.
C5_HealthFailureUnwinds ==
    ("health_failed" \in hist)
        => (status = "exit1" /\ launches = 0 /\ \A p \in Procs : Stopped(p))

\* C6: when startLocalWrappers returns an error, every relay process that was
\* started has been stopped and waited for, and no FIFO and no temporary
\* directory of this run remains.
C6_FailedStartUnwinds ==
    pc = "slw_failed" => (fs = EmptyFS /\ \A p \in Procs : Stopped(p))

C6_Witness ==
    /\ pc = "slw_failed"
    /\ i >= 2
    /\ \A p \in {TcpProc(1), UdpProc(1), TcpProc(2)} : proc[p] = "reaped"
    /\ proc[UdpProc(2)] = "none"

\* C7: Process.Kill is issued only on a process that got the graceful signal,
\* has not exited, and whose grace timer has run out (so a process that exits
\* within the grace period is never killed); and stop removes registered paths
\* only after that process has been killed and waited for.
C7_GracefulStopProtocol ==
    [][/\ \A p \in Procs :
            (p \notin killed /\ p \in killed')
                => (timer = 0 /\ Running(p) /\ p \in termed)
       /\ (stopPhase # "idle" /\ fs' # fs)
            => (Head(stopQ).p \in killed /\ proc[Head(stopQ).p] = "reaped")
      ]_vars

C7_Witness ==
    /\ status = "exit0"
    /\ \E p \in Procs : p \in killed /\ proc[p] = "reaped"
    /\ \E p \in Procs : p \in termed \ killed /\ proc[p] = "reaped"
    /\ ~fs.dir

\* C8 (as claimed): whenever stop returns for a started process, none of the
\* paths registered on that child exists any longer.
C8_PathsGoneWhenStopReturns ==
    [][(stopPhase # "idle" /\ stopPhase' = "idle")
          => \A path \in Range(Head(stopQ).fifos) : ~PathExists(path, fs')
      ]_vars

\* C10: while the supervisor is in the reconnect wait and the cancellation
\* signal has been raised, the return branch of the select can be taken
\* whatever time is left on the delay, no further second of the delay passes,
\* and no step leads to another SSH launch (also not through the loop head,
\* when the select took the timer branch).
C10_CancelDuringWait ==
    /\ (pc = "reconnect_wait" /\ cancelled)
          => (ENABLED SelectDone /\ ~ENABLED Tick)
    /\ (pc \in {"reconnect_wait", "loop"} /\ cancelled)
          => ~ENABLED (Next /\ (pc' \in {"ssh_start", "ssh_fork", "ssh_wait"}
                                \/ launches' # launches))

C10_Witness ==
    /\ pc = "reconnect_wait"
    /\ cancelled
    /\ timer > 0
    /\ launches >= 1

\* C11: at most one SSH session process of the supervisor is alive: an ssh
\* process exists only while runTunnel is blocked in cmd.Wait, cmd.Start is
\* called on a new ssh command only when no earlier ssh process is left
\* (running or exited but not reaped), and a process is reaped only after it
\* has exited.
C11_SingleSession ==
    [][/\ ssh # "none" => pc = "ssh_wait"
       /\ (launches' # launches \/ (ssh' = "running" /\ ssh # "running"))
            => ssh = "none"
       /\ (ssh # "none" /\ ssh' = "none") => ssh = "exited"
      ]_vars

C11_Witness ==
    /\ launches = 2
    /\ ssh = "running"
    /\ failures + cleanExits = 1

SetupPcs == {"require_ssh", "require_socat", "load", "validate"}
SetupTags == {"missing_ssh", "missing_socat", "load_failed", "invalid_config"}
NothingCreated ==
    /\ fs = EmptyFS
    /\ \A p \in Procs : proc[p] = "none"
    /\ kids = <<>>
    /\ ssh = "none" /\ launches = 0

\* a UDP forward's wrap_tcp_port equals a TCP forward's local_port or
\* remote_port, or two UDP forwards share their wrap_tcp_port
Collision ==
    \/ \E k \in 1..Len(cfg), n \in 1..Len(conf.tcp) :
          cfg[k].wrap \in {conf.tcp[n].local, conf.tcp[n].remote}
    \/ \E k, l \in 1..Len(cfg) : k # l /\ cfg[k].wrap = cfg[l].wrap

\* C12 (as claimed): a configuration with a wrap-port collision is rejected
\* by the validation: the program never gets past its set-up steps with it,
\* and nothing of a bridge is constructed.
C12_CollisionsRejected ==
    Collision => (pc \in SetupPcs \cup {"exited"} /\ NothingCreated)

\* what the validation refuses: missing vps.host, vps.user or vps.ssh_key, a
\* port outside 1..65535, an empty local_host, an unreadable key
Refused(c, udp) ==
    \/ c.host = "" \/ c.user = "" \/ c.key = ""
    \/ c.key \in {"missing", "dir"}
    \/ c.port \notin 1..65535
    \/ \E n \in 1..Len(c.tcp) :
          \/ c.tcp[n].remote \notin 1..65535
          \/ c.tcp[n].local \notin 1..65535
          \/ c.tcp[n].host = ""
    \/ \E k \in 1..Len(udp) :
          \/ udp[k].pub \notin 1..65535
          \/ udp[k].lport \notin 1..65535
          \/ udp[k].wrap \notin 1..65535
          \/ udp[k].host = ""

\* C16: during the set-up steps nothing has been created; when ssh or socat
\* is not found, the config cannot be loaded or the validation refuses it,
\* the program has exited with code 1 and nothing was created (no FIFO, no
\* temp directory, no relay, no SSH launch); and with a config that the
\* validation refuses (as loaded) the program never gets past the set-up.
C16_SetupErrorsFatal ==
    /\ pc \in SetupPcs => NothingCreated
    /\ (hist \cap SetupTags # {})
          => (status = "exit1" /\ pc = "exited" /\ NothingCreated)
    /\ Refused(Loaded(conf), cfg)
          => (pc \in SetupPcs \cup {"exited"} /\ NothingCreated)
    /\ (Refused(Loaded(conf), cfg) /\ pc = "exited" /\ sigs = 0)
          => (status = "exit1" /\ hist \cap SetupTags # {})

C16_Witness ==
    /\ status = "exit1"
    /\ "invalid_config" \in hist
    /\ conf.key = "dir"
    /\ conf.host = "vps" /\ conf.user = "root" /\ conf.port = DefaultPort
    /\ Len(cfg) = 2

\* the ports of the forwards are pairwise distinct
DistinctPorts ==
    /\ \A k, l \in 1..Len(cfg) :
          k # l => (cfg[k].pub # cfg[l].pub /\ cfg[k].wrap # cfg[l].wrap)
    /\ ~Collision

Started == {p \in Procs : proc[p] # "none"}

\* C13: for M UDP forwards with pairwise-distinct ports, once
\* startLocalWrappers has returned without error exactly the 2*M relays of
\* the forwards have been started (a TCP-listen relay and a UDP relay each)
\* and kids holds exactly these 2*M children; the temporary directory is
\* created by one step only, the first of startLocalWrappers, which is
\* never taken a second time, and it exists when the function returns.
C13_TwoRelaysPerForward ==
    [][/\ (slwOK /\ DistinctPorts) =>
            /\ Started = UNION {{TcpProc(k), UdpProc(k)} : k \in 1..Len(cfg)}
            /\ Cardinality(Started) = 2 * Len(cfg)
            /\ Len(kids) = 2 * Len(cfg)
            /\ \A k \in 1..Len(cfg) :
                  kids[2 * k - 1].p = TcpProc(k) /\ kids[2 * k].p = UdpProc(k)
       /\ (slwOK /\ DistinctPorts /\ Len(cfg) >= 1 /\ pc = "assert") => fs.dir
       /\ (fs'.dir /\ ~fs.dir) => pc = "main"
       /\ pc \notin (SetupPcs \cup {"main"}) => pc' \notin (SetupPcs \cup {"main"})
      ]_vars

C13_Witness ==
    /\ slwOK /\ pc = "assert"
    /\ Len(cfg) = 2 /\ DistinctPorts
    /\ Len(kids) = 4
    /\ \A p \in Procs : Running(p)

Teardown == pc \in {"slw_cleanup", "defer_stop"}

\* C14 (as claimed): during teardown the FIFO of a UDP forward is removed
\* only when both relay processes of that forward have exited.
C14_FifoAfterBothRelays ==
    [][\A k \in 1..Len(cfg) :
          (Teardown /\ PathExists(FifoPath(cfg[k]), fs)
                    /\ ~PathExists(FifoPath(cfg[k]), fs'))
              => (~Running(TcpProc(k)) /\ ~Running(UdpProc(k)))
      ]_vars

\* C15: a session error is never fatal.  When cmd.Start fails, or the ssh
\* process has exited (with a failure or with status 0), and no cancellation
\* has been raised, the next step of the control task enters the reconnect
\* wait with the configured delay on the timer; from the reconnect wait and
\* from the loop head, with no cancellation, the only way on is towards the
\* next launch; and the program does not terminate while no cancellation
\* has been raised.
C15_SessionErrorNotFatal ==
    [][/\ (launches > 0 /\ ~cancelled) => Alive
       /\ (~cancelled /\ pc' # pc /\ pc = "run_err")
            => (pc' = "reconnect_wait" /\ timer' = delay /\ Alive')
       /\ (~cancelled /\ pc' # pc /\ pc = "ssh_wait")
            => (/\ ssh = "exited" /\ Alive'
                /\ IF sshOK THEN pc' = "reconnect_wait" /\ timer' = delay
                            ELSE pc' = "run_err")
       /\ (~cancelled /\ pc' # pc /\ pc = "ssh_fork")
            => (launches' = launches + 1 /\ pc' \in {"ssh_wait", "run_err"})
       /\ (~cancelled /\ pc' # pc /\ pc = "reconnect_wait")
            => (pc' = "loop" /\ timer = 0 /\ elapsed = delay)
       /\ (~cancelled /\ pc' # pc /\ pc = "loop") => pc' = "ssh_start"
       /\ (~cancelled /\ pc' # pc /\ pc = "ssh_start") => pc' = "ssh_fork"
      ]_vars

C15_Witness ==
    /\ pc = "reconnect_wait" /\ timer = delay
    /\ launches = 2
    /\ failures = 1 /\ cleanExits = 1
    /\ ~cancelled /\ Alive

\* the relays of run r of the remote script, without their pids and directory
Topology(r) ==
    {[kind |-> b.kind, port |-> b.port, pipe |-> b.pipe] : b \in {x \in rbridge : x.dir = r}}

\* the bridge the script is generated for: for each UDP forward a relay
\* UDP-LISTEN:<pub> <-> pipe-<pub> and a relay pipe-<pub> <-> TCP:<wrap>
ExpectedTopology ==
    UNION {{[kind |-> "udp", port |-> cfg[k].pub, pipe |-> cfg[k].pub],
            [kind |-> "tcp", port |-> cfg[k].wrap, pipe |-> cfg[k].pub]} :
           k \in 1..Len(cfg)}

Watching == rpc \in {"poll", "sleep"}
RelayGone == \E p \in Range(rpids) : rprocs[p] # "running"

\* C17: end-to-end recovery.  After a recorded relay of the running script
\* has died the watchdog begins at most one more sleep before the script
\* exits; when the script has exited with its diagnostic the ssh process can
\* exit and runTunnel then returns an error; every ended session is followed
\* by at most one launch, made only when the whole delay has elapsed; and the
\* script of a launch builds its bridge afresh: a directory no run had, pids
\* no run had, and, when it reaches its watchdog untouched by a signal, the
\* FIFOs of all forwards in that directory and 2*M relays with the topology
\* of the config, the same as every earlier run that got that far.  And the
\* recovery happens: a session whose script watches a dead relay is followed
\* by the next launch, unless the supervisor is cancelled first.
C17_EndToEndRecovery ==
  /\ \A r \in 1..(MaxLaunches - 1) :
        (rrun = r /\ launches = r /\ Watching /\ RelayGone)
            ~> (launches = r + 1 \/ cancelled)
  /\
    [][/\ lag <= 1
       /\ (rpc = "done" /\ rdiag /\ rrun = launches /\ ssh = "running")
            => ENABLED RemoteDone
       /\ (pc = "ssh_wait" /\ pc' # pc /\ rpc = "done" /\ rcode # 0
             /\ rrun = launches /\ ~cancelled)
            => pc' = "run_err"
       /\ launches \in {Ended, Ended + 1}
       /\ launches' # launches
            => (launches' = Ended + 1 /\ (Ended > 0 => elapsed = delay))
       /\ rfs'.dirs # rfs.dirs /\ rpc = "mktemp"
            => (/\ rfs'.dirs = rfs.dirs \cup {rrun}
                /\ rrun \notin rfs.dirs
                /\ \A b \in rbridge : b.dir # rrun)
       /\ \A p \in RPids :
            (rprocs[p] # "running" /\ rprocs'[p] = "running")
                => (rprocs[p] = "none" /\ \A b \in rbridge : b.pid # p)
       /\ (Watching' /\ ~Watching /\ rcleanups = 0)
            => (/\ Len(rpids') = 2 * Len(cfg)
                /\ Topology(rrun)' = ExpectedTopology
                /\ \A k \in 1..Len(cfg) : RemoteFifo(cfg[k]) \in rfs'.fifos
                /\ \A r \in 1..rrun :
                     Cardinality({b \in rbridge' : b.dir = r}) = 2 * Len(cfg)
                         => Topology(r)' = Topology(rrun)')
      ]_vars

C17_Witness ==
    /\ launches = 2 /\ rrun = 2 /\ failures = 1
    /\ sigs = 0 /\ rsigs = 0
    /\ Len(cfg) = 2
    /\ rpc = "sleep"
    /\ \A n \in 1..Len(rpids) : rprocs[rpids[n]] = "running"
    /\ Cardinality({b \in rbridge : b.dir = 1}) = 2 * Len(cfg)
    /\ Cardinality({b \in rbridge : b.dir = 2}) = 2 * Len(cfg)
    /\ rfs.dirs = {2}

\* C18: the remote watchdog.  Once the script watches its relays, it leaves
\* the watchdog only by writing the diagnostic and exiting with status 1,
\* and only when a recorded relay is gone; after a recorded relay has died
\* at most one sleep is begun before the script exits (also for a relay that
\* died right after it was spawned); and the exit reaches the supervisor as
\* a failed session: ssh exits with a failure and runTunnel returns an error.
\* And it happens: a script that watches a dead relay ends with the
\* diagnostic and status 1.
C18_WatchdogSurfacesDeath ==
  /\ \A r \in 1..MaxLaunches :
        (rrun = r /\ Watching /\ RelayGone)
            ~> (rrun = r /\ rpc = "done" /\ rdiag /\ rcode = 1)
  /\
    [][/\ lag <= 1
       /\ (Watching /\ ~Watching')
            => (/\ rpc' = "exit" /\ rdiag' /\ rcode' = 1
                /\ \E p \in Range(rpids) : rprocs[p] # "running")
       /\ (rdiag /\ rpc \in {"exit", "done"}) => rcode # 0
       /\ (rdiag /\ rpc = "done" /\ rrun = launches /\ ssh = "exited") => ~sshOK
       /\ (rdiag /\ rpc = "done" /\ rrun = launches /\ pc = "ssh_wait" /\ pc' # pc)
            => pc' = "run_err"
      ]_vars

C18_Witness ==
    /\ pc = "reconnect_wait" /\ failures = 1 /\ launches = 1
    /\ rpc = "done" /\ rdiag /\ rcode = 1
    /\ Len(rpids) = 4
    /\ lag = 1
    /\ rsigs = 0 /\ sigs = 0

\* C19 (as claimed): the cleanup handler of the remote script runs exactly
\* once for each run of the script in which it was registered: never twice,
\* and once when the script has ended.
C19_CleanupExactlyOnce ==
    /\ rcleanups <= 1
    /\ (rpc = "done" /\ rtrap) => rcleanups = 1

\* C20 (as claimed): with zero UDP forwards the remote script spawns no
\* relay, runs no watchdog and, no signal sent to it, never exits.
C20_ZeroUDPNeverExits ==
    (Len(cfg) = 0 /\ rsigs = 0)
        => (/\ rpids = <<>> /\ rbridge = {}
            /\ rpc \notin {"fuser", "mkfifo", "spawn_udp", "record_udp", "spawn_tcp",
                         "record_tcp", "poll", "sleep"}
            /\ rpc \notin {"exit", "done"})

Holding == rpc \in {"hold", "hold_sleep"}

\* C20 (amended): with zero UDP forwards the remote script spawns no relay
\* and runs no watchdog; it exits only before its trap is set (socat not
\* found, mktemp failed, or killed by a signal there); once in its sleep
\* loop it never leaves it, signal or not, and the ssh session of that
\* script stays open unless the supervisor is cancelled.
C20_ZeroUDPHoldsSession ==
    [][Len(cfg) = 0
         => (/\ rpids = <<>> /\ rbridge = {}
             /\ rpc \notin {"fuser", "mkfifo", "spawn_udp", "record_udp", "spawn_tcp",
                         "record_tcp", "poll", "sleep"}
             /\ rpc \in {"exit", "done"} => ~rtrap
             /\ Holding => Holding'
             /\ (Holding /\ rrun = launches /\ ~cancelled) => ssh = "running")
      ]_vars

C20_Witness ==
    /\ Len(cfg) = 0
    /\ rpc = "hold_sleep"
    /\ rsigs = 1 /\ rcleanups = 1
    /\ ssh = "running" /\ ~cancelled

\* C9: a stop call on a child whose process was never started returns at
\* once and changes nothing; a stop call on a child that an earlier stop has
\* already stopped (gracefully or by the kill) signals and kills nothing,
\* deletes no path, raises no panic and returns through the done branch.
C9_StopIdempotent ==
    [][stopQ # <<>> =>
        LET c == Head(stopQ) IN
        /\ (c.p = NoProc /\ <<stopQ, stopPhase, status>>' # <<stopQ, stopPhase, status>>)
              => /\ stopQ' = Tail(stopQ)
                 /\ stopPhase' = "idle"
                 /\ UNCHANGED <<status, fs, proc, termed, killed>>
        /\ (c.p # NoProc /\ proc[c.p] = "reaped" /\ stopPhase \in {"idle", "select"})
              => /\ stopPhase' \in {"idle", "select"}
                 /\ proc'[c.p] = "reaped"
                 /\ UNCHANGED <<status, fs, termed, killed>>
      ]_vars

C9_Witness ==
    /\ stopPhase = "select"
    /\ Head(stopQ).p \in killed
    /\ proc[Head(stopQ).p] = "reaped"
    /\ Head(stopQ).fifos # <<>>
    /\ calls >= 2

\* this run of the script has created nothing on the VPS
NothingRemote ==
    /\ rpids = <<>>
    /\ FifoDir \notin rfs.dirs
    /\ \A x \in rfs.fifos : x[1] # FifoDir
    /\ \A b \in rbridge : b.dir # FifoDir

\* C21: with no socat on the remote PATH the first step of the script is its
\* exit with status 1 and the diagnostic on standard error; the run has then
\* made no directory and no FIFO and spawned no relay, and the script ends
\* with none of them made, because its cleanup trap was never set.
C21_NoSocatAbortsFirst ==
    [][(~rfs.socat /\ rrun > 0)
         => (/\ rpc \in {"check", "exit", "done"}
             /\ NothingRemote /\ ~rtrap /\ rcleanups = 0
             /\ (rpc = "check" /\ rpc' # rpc /\ rsigs' = rsigs)
                  => (rpc' = "exit" /\ rcode' = 1 /\ rdiag')
             /\ (rpc = "exit" /\ rsigs = 0) => (rcode = 1 /\ rdiag)
             /\ (rpc = "exit" /\ rpc' # rpc /\ rsigs' = rsigs) => rpc' = "done"
             /\ (rpc = "done" /\ rsigs = 0) => (rcode = 1 /\ rdiag))
      ]_vars

C21_Witness ==
    /\ ~rfs.socat /\ Len(cfg) = 2
    /\ rrun = 1 /\ rpc = "done" /\ rcode = 1 /\ rdiag
    /\ rsigs = 0
    /\ pc = "reconnect_wait" /\ failures = 1

\* positions of the reverse-forward entries in the argument list
FixedLen == Len(BaseArgs(conf))
HasOption(a, o) == \E n \in 1..(Len(a) - 1) : a[n] = "-o" /\ a[n + 1] = o

\* C22: for a config with N TCP forwards and M UDP forwards the argument
\* list of buildSSHArgs has exactly N+M "-R" entries, all after the fixed
\* options: first one for each TCP forward, 0.0.0.0:<remote>:<host>:<local>,
\* then one for each UDP forward, 127.0.0.1:<wrap>:127.0.0.1:<wrap>, each in
\* the order of the config; and -i, -p, BatchMode, ExitOnForwardFailure, the
\* keepalive interval and count, the host-key policy and -T are there.
C22_ReverseForwards ==
    args # NoArgs =>
        LET a == args.argv
            N == Len(conf.tcp)
            M == Len(cfg)
        IN /\ Len(a) = FixedLen + 2 * (N + M)
           /\ Cardinality({n \in 1..Len(a) : a[n] = "-R"}) = N + M
           /\ \A n \in 1..N :
                /\ a[FixedLen + 2 * n - 1] = "-R"
                /\ a[FixedLen + 2 * n] =
                     "0.0.0.0:" \o Itoa(conf.tcp[n].remote) \o ":"
                        \o conf.tcp[n].host \o ":" \o Itoa(conf.tcp[n].local)
           /\ \A k \in 1..M :
                /\ a[FixedLen + 2 * N + 2 * k - 1] = "-R"
                /\ a[FixedLen + 2 * N + 2 * k] =
                     "127.0.0.1:" \o Itoa(cfg[k].wrap) \o ":127.0.0.1:"
                        \o Itoa(cfg[k].wrap)
           /\ HasOption(a, "BatchMode=yes")
           /\ HasOption(a, "ExitOnForwardFailure=yes")
           /\ HasOption(a, "ServerAliveInterval=15")
           /\ HasOption(a, "ServerAliveCountMax=3")
           /\ HasOption(a, "StrictHostKeyChecking=" \o conf.strict)
           /\ \E n \in 1..FixedLen : a[n] = "-T"
           /\ args.target = conf.user \o "@" \o conf.host

C22_Witness ==
    /\ pc = "args_done"
    /\ Len(conf.tcp) = 2 /\ Len(cfg) = 2
    /\ conf.tcp[1] # conf.tcp[2] /\ cfg[1] # cfg[2]
    /\ args.argv[16] = "-R"
    /\ args.argv[17] = "0.0.0.0:443:10.0.0.5:8080"
    /\ args.argv[21] = "127.0.0.1:10001:127.0.0.1:10001"
    /\ args.argv[23] = "127.0.0.1:10000:127.0.0.1:10000"

\* C23 (as claimed): a call of waitLocalListen returns nil only from a
\* connect attempt that succeeded, returns "not listening" otherwise, and has
\* returned no later than maxWait plus one connect attempt of 150 ms after
\* it was called: it never is in progress, or returns, later than that.
C23_ProbeBounded ==
    /\ wll.res \in {"none", "ok", "not_listening"}
    /\ wll.now <= wll.maxWait + DialTimeout

\* C24 (as claimed): on the established bridge every datagram travels from
\* the public port over the remote relays, the reverse-forward and the local
\* relays to the service and its echo travels back: what the sender gets
\* back are the echoes of its datagrams, each echoed once by the service
\* and in the order sent, and what reaches the service are datagrams not
\* echoed before.
C24_DataPath ==
    /\ \A n \in 1..Len(net.ch["toSender"]) :
         /\ net.ch["toSender"][n].echoes = 1
         /\ net.ch["toSender"][n].id = n
    /\ \A n \in 1..Len(net.ch["toService"]) : net.ch["toService"][n].echoes = 0

\* C25 (as claimed): the ssh process is force-killed only after it has been
\* sent the graceful termination signal (and has not exited within the
\* grace period).
C25_SSHTwoPhaseStop ==
    [][("ssh_killed" \notin hist /\ "ssh_killed" \in hist')
          => "ssh_termed" \in hist
      ]_vars

\* C26: no local relay is sent its stop signal, and none is force-killed,
\* while an ssh process launched by the supervisor is running: when the stop
\* loops run, every ssh process that was launched has been killed through
\* the cancelled context, or has exited by itself, and has been waited for.
C26_RelaysStoppedAfterSSH ==
    [][/\ (termed' # termed \/ killed' # killed) => ssh # "running"
       /\ (pc' \in {"defer_cancel", "defer_stop"}) => ssh' # "running"
       /\ (pc = "defer_stop" /\ stopPhase # "idle")
            => ssh = "none"
      ]_vars

C26_Witness ==
    /\ pc = "defer_stop" /\ stopPhase = "select"
    /\ "ssh_killed" \in hist
    /\ launches = 2
    /\ TcpProc(1) \in termed /\ Running(TcpProc(1))
    /\ ssh = "none"

\* C27 (as claimed): waitLocalListen succeeds for a forward only when the
\* listener on its wrap port is that forward's own TCP relay and the relay
\* is running; with a foreign listener on the port it does not succeed.
C27_HealthyOnlyOwnListener ==
    [][\A k \in 1..Len(cfg) :
          (k \notin probed /\ k \in probed')
              => (/\ listener[cfg[k].wrap] = TcpProc(k)
                  /\ Running(TcpProc(k)))
      ]_vars

\* C28 (as claimed): once the cancellation signal has been raised no ssh
\* process is started.
C28_NoLaunchAfterCancel ==
    [][(ssh # "running" /\ ssh' = "running") => ~cancelled]_vars

\* C28 (amended): once the cancellation signal has been raised the loop makes
\* no new launch attempt and goes to teardown.  From the loop head, from the
\* reconnect wait and after an error of runTunnel main returns; a cmd.Start
\* that finds the context done starts no process; only a cmd.Start that was
\* already past its check of the context when the signal came still starts
\* its process, and after it no other one is started.
C28_CancelStopsLaunching ==
    [][cancelled
         => (/\ (pc = "loop" /\ pc' # pc) => pc' = "defer_cancel"
             /\ (pc = "ssh_start" /\ pc' # pc) => (pc' = "run_err" /\ UNCHANGED ssh)
             /\ (pc = "run_err" /\ pc' # pc) => pc' = "defer_cancel"
             /\ (pc = "reconnect_wait" /\ pc' # pc) => pc' \in {"defer_cancel", "loop"}
             /\ (pc = "ssh_wait" /\ pc' # pc) => pc' \in {"run_err", "reconnect_wait"}
             /\ (launches' # launches \/ (ssh # "running" /\ ssh' = "running"))
                  => pc = "ssh_fork"
             /\ pc' = "ssh_fork" => pc = "ssh_fork")
      ]_vars

C28_Witness ==
    /\ pc = "ssh_fork" /\ cancelled
    /\ launches = 1 /\ failures = 1
    /\ ssh = "none"

\* C29: cancellation is not starved.  While main waits for the ssh process
\* and the context is cancelled the process can be killed, and it is: the
\* wait ends, main returns and the program exits.  A stop call never waits
\* longer than its grace period: time passes in it only while the process
\* has not exited and the grace timer has not run out, and then the kill,
\* the wait and the removal of the paths follow; every stop call returns.
C29_CancelNotStarved ==
  /\ (cancelled /\ pc = "ssh_wait") ~> ~Alive
  /\ \A n \in 1..(2 * MaxUDP) :
        (Alive /\ stopPhase # "idle" /\ Len(stopQ) = n) ~> (~Alive \/ Len(stopQ) < n)
  /\
    [][/\ (cancelled /\ pc = "ssh_wait" /\ ssh = "running") => ENABLED CtxKill
       /\ (cancelled /\ pc = "ssh_wait" /\ pc' # pc) => ssh # "running"
       /\ stopPhase = "select" => timer <= grace
       /\ (stopPhase # "idle" /\ timer' # timer /\ stopPhase' # "idle")
            => (/\ stopPhase = "select" /\ timer' = timer - 1
                /\ Running(Head(stopQ).p))
       /\ (stopPhase = "select" /\ timer = 0) => ENABLED (StopDone \/ StopTimeout)
      ]_vars

C29_Witness ==
    /\ status = "exit0"
    /\ "ssh_killed" \in hist
    /\ launches = 2
    /\ killed # {} /\ termed = 1..(2 * Len(cfg))
    /\ Len(cfg) = 2

\* go func() { _ = c.cmd.Wait(); close(done) }(): the goroutine stop has
\* started is in cmd.Wait for as long as the process of the handle has not
\* been reaped
WaiterInWait ==
    /\ stopPhase \in {"select", "wait"}
    /\ proc[Head(stopQ).p] # "reaped"

\* the goroutine that called stop operates on the handle: Process.Kill()
\* and the cmd.Wait() after it
CallerOnHandle ==
    \/ stopPhase = "select" /\ stopPhase' = "wait"
    \/ stopPhase = "wait" /\ stopPhase' = "cleanup"

\* C30: while a process is being stopped, the waiter started by stop and the
\* caller of stop never operate on the same process handle at the same time:
\* whenever the caller kills the process or waits for it, the waiter is not
\* in its own wait for that process, and when stop returns the waiter is not
\* left in its wait.
C30_HandleNotShared ==
    [][/\ CallerOnHandle => ~WaiterInWait
       /\ (stopPhase = "select" /\ stopPhase' = "idle") => ~WaiterInWait'
      ]_vars

\* the positions of main inside its reconnect loop
LoopPcs == {"loop", "ssh_start", "ssh_fork", "ssh_wait", "run_err", "reconnect_wait"}

\* C31: the local bridges are built once and reused.  No step taken while
\* main is in its reconnect loop changes the list of children, the FIFO
\* files or the temporary directory, starts, signals or kills a relay
\* process; and from the loop main goes on only inside the loop or to its
\* return, never back to the set-up, to startLocalWrappers or to the health
\* check.
C31_BridgesReused ==
    [][(pc \in LoopPcs) =>
          (/\ kids' = kids
           /\ fs' = fs
           /\ \A p \in Procs : (proc'[p] = "running" => Running(p))
           /\ termed' = termed /\ killed' = killed
           /\ slwOK' = slwOK /\ probed' = probed
           /\ pc' \in (LoopPcs \cup {"defer_cancel"}))
      ]_vars

C31_Witness ==
    /\ pc = "ssh_wait" /\ ssh = "running"
    /\ launches = 2 /\ failures = 1
    /\ Len(cfg) = 2
    /\ Len(kids) = 4
    /\ fs.dir /\ fs.files # {}
    /\ \A p \in Procs : Running(p)

\* C32 (as claimed): once startLocalWrappers has returned without error for
\* the M UDP forwards of a config that validateConfig accepted, exactly M
\* FIFO files exist and no two forwards use the same FIFO path, so that the
\* createFIFO of one forward has not unlinked and replaced the FIFO of
\* another.
C32_OneFifoPerForward ==
    (slwOK /\ pc \in ({"assert"} \cup LoopPcs))
        => /\ Cardinality(fs.files) = Len(cfg)
           /\ \A k, l \in 1..Len(cfg) :
                 k # l => FifoPath(cfg[k]) # FifoPath(cfg[l])

\* the places of the lists of children where path is registered
Registrations(path) ==
    {<<n, m>> \in (1..Len(kids)) \X (1..2) :
        m <= Len(kids[n].fifos) /\ kids[n].fifos[m] = path}

\* C33 (as claimed): once startLocalWrappers has returned without error, the
\* FIFO path of every forward is registered exactly once, on one of the two
\* relays of that forward, and the temporary directory is registered exactly
\* once.
C33_PathsRegisteredOnce ==
    (slwOK /\ Len(cfg) >= 1 /\ pc \in ({"assert"} \cup LoopPcs))
        => /\ \A k \in 1..Len(cfg) :
                 /\ Cardinality(Registrations(FifoPath(cfg[k]))) = 1
                 /\ \A r \in Registrations(FifoPath(cfg[k])) :
                       kids[r[1]].p \in {TcpProc(k), UdpProc(k)}
           /\ Cardinality(Registrations(TmpDir)) = 1

\* the paths of a run: the temporary directory and the FIFO files in it
Paths == {TmpDir} \cup Ports

\* C34 (as claimed): during the deferred teardown a FIFO file or the
\* temporary directory is deleted only by the stop of the child it is
\* registered on; the stop of one child deletes no path registered on
\* another child.
C34_OnlyOwnerDeletes ==
    [][(pc = "defer_stop") =>
          \A path \in Paths :
              (PathExists(path, fs) /\ ~PathExists(path, fs'))
                  => (/\ stopPhase # "idle"
                      /\ path \in Range(Head(stopQ).fifos))
      ]_vars

\* C35: with no UDP forward configured startLocalWrappers does nothing and
\* returns an empty list without error: at no time is there a temporary
\* directory, a FIFO, a relay process or a child, no clean-up is begun and
\* neither startLocalWrappers nor the health check fails; from main the
\* program goes to the health check in one step, without arming the probe
\* timer, and from there to the loop; and the ssh command line of every
\* launch is the fixed options followed by the TCP reverse forwards only.
C35_NoUDPIsNoOp ==
    [][(Len(cfg) = 0) =>
          (/\ fs = EmptyFS /\ kids = <<>>
           /\ \A p \in Procs : proc[p] = "none"
           /\ stopQ = <<>> /\ stopPhase = "idle"
           /\ {"start_failed", "health_failed"} \cap hist = {}
           /\ pc \notin {"slw_fifo", "slw_tcp", "slw_udp", "slw_attach",
                         "slw_cleanup", "slw_failed"}
           /\ (pc = "main" /\ pc' # pc /\ Alive')
                 => (pc' = "assert" /\ slwOK' /\ timer' = 0)
           /\ pc = "assert" => (timer = 0 /\ ~ENABLED ProbeFail /\ ENABLED NotifyContext)
           /\ (pc = "assert" /\ pc' # pc /\ Alive') => pc' = "loop"
           /\ launches' > launches
                 => (/\ args = buildSSHArgs(conf, <<>>)
                     /\ args.argv = BaseArgs(conf) \o TCPArgs(conf.tcp)
                     /\ Len(args.argv) = FixedLen + 2 * Len(conf.tcp)))
      ]_vars

C35_Witness ==
    /\ Len(cfg) = 0
    /\ ssh = "running" /\ pc = "ssh_wait"
    /\ Len(conf.tcp) = 1
    /\ args.argv[Len(args.argv)] = TCPReverse(conf.tcp[1])
    /\ kids = <<>> /\ fs = EmptyFS

\* C36: a removal that fails during stop is not propagated and does not block
\* the shutdown.  Whatever paths cannot be removed, the program does not end
\* by an error or a panic; the clean-up loop of a stop can always be run and
\* ends the stop call; when it has run, every path registered on the child
\* that still exists is one a further removal would still fail on (so the
\* paths after a failed one were attempted as well); the next child of the
\* deferred loop can then be stopped; the program exits only when every
\* relay has been stopped and waited for; and once main has returned into
\* its deferred functions the program does end.
C36_CleanupErrorsIgnored ==
  /\ (pc \in {"defer_cancel", "defer_stop"}) ~> ~Alive
  /\
    [][/\ status' \in {"running", "exit0", "signal"}
       /\ stopPhase = "cleanup" => ENABLED StopCleanup
       /\ (stopPhase = "cleanup" /\ stopPhase' # stopPhase)
            => (/\ stopPhase' = "idle" /\ stopQ' = Tail(stopQ)
                /\ status' = status
                /\ \A path \in Range(Head(stopQ).fifos) :
                      PathExists(path, fs') => RemovePath(path, fs') = fs')
       /\ (pc = "defer_stop" /\ stopPhase = "idle" /\ stopQ # <<>>)
            => ENABLED StopCall
       /\ status' = "exit0" => \A p \in Procs : proc'[p] \in {"none", "reaped"}
      ]_vars

C36_Witness ==
    /\ status = "exit0"
    /\ Len(cfg) = 2
    /\ fs.stuck = {1} /\ fs.files = {1} /\ fs.dir
    /\ killed = {TcpProc(1), TcpProc(2)}
    /\ \A p \in Procs : Stopped(p)

\* the relays the current run of the remote script has spawned, recorded in
\* $pids or not
SpawnedThisRun == {b \in rbridge : b.dir = FifoDir}

\* C37: when a run of the remote script that has spawned a relay has ended,
\* none of the relays it spawned is running, its temporary directory and
\* the FIFOs in it are gone, and every relay it spawned had been recorded
\* in $pids; the script does not end between the spawn of a relay and the
\* recording of its pid, whatever signal is pending then.
C37_NoRelayOutlivesScript ==
    /\ (rpc = "done" /\ SpawnedThisRun # {})
          => /\ \A b \in SpawnedThisRun :
                   rprocs[b.pid] # "running" /\ b.pid \in Range(rpids)
             /\ FifoDir \notin rfs.dirs
             /\ \A x \in rfs.fifos : x[1] # FifoDir
             /\ rcleanups >= 1
    /\ (rpc \in {"exit", "done"})
          => \A b \in SpawnedThisRun : b.pid \in Range(rpids)

C37_Witness ==
    /\ rpc = "done"
    /\ rsigs = 1 /\ rcleanups = 2
    /\ Len(cfg) = 2
    /\ Len(rpids) = 2
    /\ Cardinality(SpawnedThisRun) = 2
    /\ rcode = 1 /\ ~rdiag
    /\ rrun = 1

\* C38 (as claimed): a SIGINT or SIGTERM delivered to the running remote
\* script, for any number of UDP forwards, makes the script run its cleanup
\* handler and then exit: a script with a trapped signal pending eventually
\* has ended.
C38_SignalEndsScript ==
    (rtrap /\ rpend) ~> (rpc = "done")

\* a relay of a configured forward is not running
DeadRelay ==
    \E k \in 1..Len(cfg) : ~Running(TcpProc(k)) \/ ~Running(UdpProc(k))

\* C39: in the reconnect loop the supervisor does not depend on the local
\* relays being alive.  While a relay is dead and no cancellation has been
\* raised, the program stays alive and in its loop, starts no relay and
\* stops none, and each step of the loop can be taken as with a live
\* bridge: the loop check, the next launch of ssh, and the end of the
\* reconnect wait.
C39_DeadBridgeUnnoticed ==
    [][(pc \in LoopPcs /\ ~cancelled /\ DeadRelay) =>
          (/\ Alive' /\ pc' \in LoopPcs
           /\ \A p \in Procs : (proc'[p] = "running" => Running(p))
           /\ termed' = termed /\ killed' = killed /\ kids' = kids
           /\ stopQ = <<>> /\ stopPhase = "idle"
           /\ pc = "loop" => (ENABLED LoopCheck /\ (pc' # pc => pc' = "ssh_start"))
           /\ (pc = "ssh_start" /\ launches < MaxLaunches) => ENABLED StartCheck
           /\ pc = "ssh_fork" => ENABLED StartFork
           /\ (pc = "reconnect_wait" /\ timer = 0) => ENABLED SelectDelay)
      ]_vars

C39_Witness ==
    /\ pc = "ssh_wait" /\ ssh = "running"
    /\ launches = 2
    /\ ~cancelled
    /\ Len(cfg) = 1
    /\ proc[UdpProc(1)] = "exited" /\ crashes = 1

\* C40 (as claimed): the reconnect delay the supervisor uses is at least one
\* second: the loaded reconnect_delay_seconds is at least 1, the duration
\* the select waits for is at least one second, and when the loop goes on
\* after a reconnect wait a positive time has passed in it.
C40_DelayAtLeastOneSecond ==
    /\ rd.at \in {"loop", "select"}
          => (~IsNeg(rd.secs) /\ ~Less64(rd.secs, Int64(1)))
    /\ rd.at = "select"
          => (~IsNeg(rd.dur) /\ ~Less64(rd.dur, Int64(Second)))
    /\ (rd.at = "loop" /\ rd.waits > 0) => rd.slept

====
